---- MODULE Spec2Model ----
(***************************************************************************)
(* Entity resolution engine and incremental deduplication state manager    *)
(* of the Aue Natural pricing pipeline.                                    *)
(*                                                                         *)
(* Part I  (SpecDedup): src/src/deduplication_manager.py                   *)
(* Part II (SpecMatch): the matching passes and their consolidation        *)
(* Part III (SpecScore): the text and scoring functions on their own       *)
(* Part IV (SpecEmbed): the EmbeddingManager of the primary pass           *)
(* Part V (SpecLoad): the loading of the persisted files on its own        *)
(* Part VI (SpecBlock): the blocking of the primary pass on rows of two    *)
(*                      categories                                         *)
(* Part VII (SpecUrl): deduplicate_file on files of one row with a url and *)
(*                     a thumbnail column                                  *)
(*                                                                         *)
(* Strings are sequences of tokens.  A token is a run of characters the    *)
(* code never looks inside: "a" and "A" are the same text in lower and     *)
(* upper case, " " is white space, "?" and "&" are themselves, "utm" is a  *)
(* whole tracking parameter utm_k=v and "p" a whole ordinary parameter.    *)
(***************************************************************************)
EXTENDS Integers, Sequences, FiniteSets, TLC

VARIABLES
    urlFile,     \* data/processed/seen_urls.json
    thumbFile,   \* data/processed/seen_thumbnails.json
    prodFile,    \* data/processed/seen_product_ids.json
    processed,   \* data/processed/all_search_results_<ts>_deduplicated.csv, by ts
    clock,       \* datetime.now() at a resolution of one second
    run,         \* what the last operation returned and labelled
    prevNew,     \* url cells of the rows accepted by the run before the last one,
                 \* when both are completed runs of deduplicate_file in a row
    ops,         \* operations carried out so far
    df,              \* the product rows the primary pass loads
    lib,             \* what rapidfuzz and the sentence embedding return for a pair of names
    stage,           \* how far the matching pipeline has come
    engine,          \* the primary pass that ran
    matches,         \* processed_matches: pairs of the primary pass
    unmatched,       \* unmatched_products: rows the primary pass left unmatched
    post_input,      \* the rows the recovery pass loaded
    post_matches,    \* post_processed_matches: pairs of the recovery pass
    final_matches,   \* the consolidated pairs
    final_unmatched, \* the unmatched rows written with the consolidated pairs
    summary,         \* the summaries written so far, the latest last
    call_args,       \* the two rows handed to the scoring functions
    call_log,        \* the calls made on them and what each returned
    cache,           \* EmbeddingManager.cache: key and vector
    encode_log,      \* the texts of every model.encode invocation, in order
    emb_ret,         \* the vectors the last call returned
    emb_calls,       \* calls made on the EmbeddingManager so far
    cache_file,      \* data/processed/embeddings_cache.pkl
    emb_main         \* where main of the enhanced engine is, the error it
                     \* re-raises and the caches it tried to save

dedupVars == <<urlFile, thumbFile, prodFile, processed, clock, run, prevNew, ops>>

matchVars == <<df, lib, stage, engine, matches, unmatched, post_input, post_matches,
               final_matches, final_unmatched, summary>>

scoreVars == <<call_args, call_log>>

embedVars == <<cache, encode_log, emb_ret, emb_calls, cache_file, emb_main>>

vars == <<urlFile, thumbFile, prodFile, processed, clock, run, prevNew, ops,
          df, lib, stage, engine, matches, unmatched, post_input, post_matches,
          final_matches, final_unmatched, summary,
          call_args, call_log, cache, encode_log, emb_ret, emb_calls,
          cache_file, emb_main>>

\* no function has been called
ScoreIdle == call_args = <<>> /\ call_log = <<>>

\* the cache file on disk: not there, there with the pickled dict, or there and
\* not loadable (not readable, or cut short by a save that failed)
NoCacheFile == [st |-> "absent", entries |-> {}]
UnreadableCacheFile == [st |-> "unreadable", entries |-> {}]
Pickled(c) == [st |-> "ok", entries |-> c]

\* main before it constructs the EmbeddingManager
NotStarted == [pc |-> "start", error |-> "none", saves |-> <<>>]

\* no EmbeddingManager has been constructed
EmbedIdle ==
    /\ cache = {}
    /\ encode_log = <<>>
    /\ emb_ret = <<>>
    /\ emb_calls = 0
    /\ cache_file = NoCacheFile
    /\ emb_main = NotStarted

\* the matching pipeline before any input is loaded
MatchIdle ==
    /\ df = <<>>
    /\ lib = [fuzz |-> <<>>, sem |-> <<>>]
    /\ stage = "idle"
    /\ engine = "none"
    /\ matches = <<>>
    /\ unmatched = <<>>
    /\ post_input = <<>>
    /\ post_matches = <<>>
    /\ final_matches = <<>>
    /\ final_unmatched = <<>>
    /\ summary = <<>>

(***************************************************************************)
(* Bounds                                                                  *)
(***************************************************************************)
MaxBatch == 2       \* rows in one input file
MaxClock == 1       \* seconds the clock can advance
MaxOps == 3         \* operations in one behaviour

(***************************************************************************)
(* Cell values                                                             *)
(***************************************************************************)
NaN == <<"<NaN>">>        \* a missing cell (numpy.nan)
None == <<"<None>">>      \* Python None

\* Series.astype(str): a missing cell becomes the text "nan"
AsStr(x) == IF x = NaN THEN <<"nan">> ELSE x

\* str.lower(), token by token
LowerTok(t) ==
    CASE t = "A" -> "a" [] t = "UTM" -> "utm" [] t = "None" -> "none"
      [] t = "Balm" -> "balm" [] t = "Shea" -> "shea" [] t = "Soap" -> "soap"
      [] t = "Aue" -> "aue" [] t = "Other" -> "other" [] t = "Hair" -> "hair"
      [] t = "Boots" -> "boots" [] t = "UK" -> "uk" [] t = "Amazon" -> "amazon"
      [] t = "Tesco" -> "tesco" [] t = "Unknown" -> "unknown" [] OTHER -> t
Lower(s) == [i \in DOMAIN s |-> LowerTok(s[i])]

RECURSIVE LStrip(_, _)
LStrip(s, c) == IF s # <<>> /\ Head(s) \in c THEN LStrip(Tail(s), c) ELSE s

RECURSIVE RStrip(_, _)
RStrip(s, c) ==
    IF s # <<>> /\ s[Len(s)] \in c THEN RStrip(SubSeq(s, 1, Len(s) - 1), c) ELSE s

\* str.strip()
Strip(s) == RStrip(LStrip(s, {" "}), {" "})

\* re.sub(r"(\?|&)(utm_[^=]+=[^&]+)", "", u): a separator followed by a
\* tracking parameter is removed together with everything up to the next "&"
RECURSIVE SkipToAmp(_)
SkipToAmp(s) == IF s = <<>> \/ Head(s) = "&" THEN s ELSE SkipToAmp(Tail(s))

RECURSIVE RemoveUtm(_)
RemoveUtm(s) ==
    IF s = <<>> THEN <<>>
    ELSE IF Head(s) \in {"?", "&"} /\ Len(s) >= 2 /\ s[2] = "utm"
         THEN RemoveUtm(SkipToAmp(Tail(Tail(s))))
         ELSE <<Head(s)>> \o RemoveUtm(Tail(s))

canonicalize_url(u) ==
    IF u = NaN \/ u = <<>> THEN u
    ELSE RStrip(RStrip(RemoveUtm(Lower(Strip(u))), {"&"}), {"?"})

\* hashlib.md5 of a non-empty text; distinct texts get distinct digests
md5(s) == IF s = NaN \/ s = None \/ s = <<>> THEN None ELSE <<"md5">> \o s

\* DataFrame.to_csv followed by pandas.read_csv: an empty cell and the text
\* "nan" are both read back as a missing cell
CsvRead(x) == IF x = <<>> \/ x = <<"nan">> \/ x = None THEN NaN ELSE x

(***************************************************************************)
(* Input files                                                             *)
(***************************************************************************)
AllCols == {"url", "thumbnail", "product_id", "brand_clean", "product_clean", "category_clean"}

Schemas == { AllCols,
             AllCols \ {"product_id"},
             {"url", "thumbnail", "product_id"},
             AllCols \ {"category_clean"} }

Row(u, t, p, b, n, c) ==
    [url |-> u, thumbnail |-> t, product_id |-> p,
     brand_clean |-> b, product_clean |-> n, category_clean |-> c]

RowPool ==
    { Row(<<"a">>, <<"t1">>, <<"p1">>, <<"acme">>, <<"soap">>, <<"bar">>),
      Row(<<" ", "A", "?", "utm">>, <<"t2">>, <<"p2">>, NaN, <<"balm">>, <<"bar">>),
      Row(NaN, <<"t1", " ">>, <<"p2">>, <<"None">>, <<"Balm">>, <<"bar">>) }

\* rows whose urls are one address written in several ways, rows without a url
\* and rows without a thumbnail
UrlRows ==
    { Row(<<"a", "?", "p">>, <<"t1">>, NaN, NaN, NaN, NaN),
      Row(<<" ", "A", "?", "p", " ">>, <<"t2">>, NaN, NaN, NaN, NaN),
      Row(<<"a", "?", "p", "&", "utm">>, <<"t3">>, NaN, NaN, NaN, NaN),
      Row(<<"a", "?", "utm", "&", "p">>, <<"t4">>, NaN, NaN, NaN, NaN),
      Row(NaN, <<"t5">>, NaN, NaN, NaN, NaN),
      Row(NaN, <<"t6">>, NaN, NaN, NaN, NaN),
      Row(<<"b">>, NaN, NaN, NaN, NaN, NaN),
      Row(<<"c">>, NaN, NaN, NaN, NaN, NaN) }

RECURSIVE SeqsUpTo(_, _)
SeqsUpTo(S, n) ==
    IF n = 0 THEN {<<>>}
    ELSE LET shorter == SeqsUpTo(S, n - 1)
         IN shorter \cup {Append(s, x) : s \in shorter, x \in S}

Batches == SeqsUpTo(RowPool, MaxBatch) \ {<<>>}

(***************************************************************************)
(* State files                                                             *)
(***************************************************************************)
Absent == [st |-> "absent", vals |-> {}]
Partial == [st |-> "partial", vals |-> {}]     \* opened for writing, not yet complete
Saved(S) == [st |-> "ok", vals |-> S]
Unreadable == [st |-> "unreadable", vals |-> {}]   \* there, open(path, "r") raises

\* _load_state_set opens the file before its try block
open_raises(f) == f.st = "unreadable"

\* _load_state_set: a missing file and a file json.load rejects both give set()
load_state_set(f) == IF f.st = "ok" THEN f.vals ELSE {}

(***************************************************************************)
(* deduplicate_file, column by column                                      *)
(***************************************************************************)
Idx(batch) == 1..Len(batch)

\* df["url"].astype(str).map(self._canonicalize_url), computed once per row
UrlTable == [r \in RowPool \cup UrlRows |-> canonicalize_url(AsStr(r.url))]
UrlOf(r) == UrlTable[r]

\* df["thumbnail"].astype(str).str.strip(), computed once per row
ThumbTable == [r \in RowPool \cup UrlRows |-> Strip(AsStr(r.thumbnail))]
ThumbOf(r) == ThumbTable[r]

\* df["thumbnail_hash"]
thumbnail_hash(cols, r) == IF "thumbnail" \in cols THEN md5(ThumbOf(r)) ELSE None

\* url_dup comparing the cell as written in the file instead of its canonical form
url_dup_raw(cols, r, seen_urls) == "url" \in cols /\ AsStr(r.url) \in seen_urls

url_dup(cols, r, seen_urls) == "url" \in cols /\ UrlOf(r) \in seen_urls

thumb_dup(cols, r, seen_thumbs) == thumbnail_hash(cols, r) \in seen_thumbs

prod_dup(cols, r, seen_products) ==
    /\ "product_id" \in cols
    /\ seen_products # {}
    /\ r.product_id \in seen_products

HasText(cols) == {"brand_clean", "product_clean"} \subseteq cols

\* fillna("none").astype(str).str.lower().str.strip()
FillNone(x) == Strip(Lower(IF x = NaN THEN <<"none">> ELSE x))

\* df["logical_key"], computed once per row
KeyTable ==
    [r \in RowPool \cup UrlRows |->
        FillNone(r.brand_clean) \o <<"_">> \o FillNone(r.product_clean) \o <<"_">>
            \o Strip(Lower(AsStr(r.category_clean)))]
logical_key(r) == KeyTable[r]

\* df["logical_key"].duplicated(keep="first")
text_dup(cols, batch, i) ==
    /\ HasText(cols)
    /\ \E j \in 1..(i - 1) : logical_key(batch[j]) = logical_key(batch[i])

\* the cat_part of a file with the text columns but no category_clean is the
\* str "unknown", and "unknown".astype raises AttributeError
Raises(cols) == HasText(cols) /\ "category_clean" \notin cols

\* is_new without the text rule
is_new_no_text(cols, batch, i, su, st, sp) ==
    /\ ~(url_dup(cols, batch[i], su) \/ thumb_dup(cols, batch[i], st))
    /\ ~prod_dup(cols, batch[i], sp)

is_new(cols, batch, i, su, st, sp) ==
    /\ ~(url_dup(cols, batch[i], su) \/ thumb_dup(cols, batch[i], st))
    /\ ~prod_dup(cols, batch[i], sp)
    /\ ~text_dup(cols, batch, i)

\* dedup_reason with the thumbnail condition listed before the URL condition
dedup_reason_thumb_first(cols, batch, i, su, st, sp) ==
    IF thumb_dup(cols, batch[i], st) THEN "duplicate_thumbnail"
    ELSE IF url_dup(cols, batch[i], su) THEN "duplicate_url"
    ELSE IF prod_dup(cols, batch[i], sp) THEN "duplicate_product_id"
    ELSE IF text_dup(cols, batch, i) THEN "duplicate_text"
    ELSE "new_entry"

\* np.select: the first condition that holds names the reason
dedup_reason(cols, batch, i, su, st, sp) ==
    IF url_dup(cols, batch[i], su) THEN "duplicate_url"
    ELSE IF thumb_dup(cols, batch[i], st) THEN "duplicate_thumbnail"
    ELSE IF prod_dup(cols, batch[i], sp) THEN "duplicate_product_id"
    ELSE IF text_dup(cols, batch, i) THEN "duplicate_text"
    ELSE "new_entry"

NewIdx(cols, batch, su, st, sp) == {i \in Idx(batch) : is_new(cols, batch, i, su, st, sp)}

\* NewUrls taking the urls of df instead of new_df
NewUrls_all_rows(cols, batch, new) ==
    IF "url" \in cols THEN {UrlOf(batch[i]) : i \in Idx(batch)} \ {NaN} ELSE {}

\* seen_urls.update(set(new_df["url"].dropna()))
NewUrls(cols, batch, new) ==
    IF "url" \in cols THEN {UrlOf(batch[i]) : i \in new} \ {NaN} ELSE {}

\* seen_thumbs.update(set(new_df["thumbnail_hash"].dropna()))
NewThumbs(cols, batch, new) == {thumbnail_hash(cols, batch[i]) : i \in new} \ {None, NaN}

\* seen_products.update(set(new_df["product_id"].dropna()))
NewProducts(cols, batch, new) ==
    IF "product_id" \in cols THEN {batch[i].product_id : i \in new} \ {NaN} ELSE {}

\* one csv file as the rebuild reads it: the columns and the cells of its rows
CsvFile(cols, rows) == [exists |-> TRUE, cols |-> cols, rows |-> rows]
NoFile == [exists |-> FALSE, cols |-> {}, rows |-> {}]

\* keep_df: the accepted rows with the canonical url and the stripped thumbnail
KeepRow(cols, r) ==
    [url |-> IF "url" \in cols THEN UrlOf(r) ELSE NaN,
     thumbnail |-> IF "thumbnail" \in cols THEN ThumbOf(r) ELSE NaN,
     product_id |-> IF "product_id" \in cols THEN r.product_id ELSE NaN]

keep_df(cols, batch, new) ==
    CsvFile(cols \cap {"url", "thumbnail", "product_id"}, {KeepRow(cols, batch[i]) : i \in new})

BlankRun(op) ==
    [op |-> op, cols |-> {}, batch |-> <<>>, seen_urls |-> {}, seen_thumbs |-> {},
     seen_products |-> {}, reason |-> <<>>, kept |-> {}]

\* _save_state_set, three times in a row.  open(path, "w") empties the file
\* before json.dump fills it; crashAt = k is a crash inside the k-th save,
\* crashAt = 0 is none.
SaveAll(u, t, p, crashAt) ==
    /\ urlFile' = IF crashAt = 1 THEN Partial ELSE Saved(u)
    /\ thumbFile' = CASE crashAt = 1 -> thumbFile
                      [] crashAt = 2 -> Partial
                      [] OTHER -> Saved(t)
    /\ prodFile' = CASE crashAt \in {1, 2} -> prodFile
                     [] crashAt = 3 -> Partial
                     [] OTHER -> Saved(p)

(***************************************************************************)
(* analyze_historical_data: what one csv file contributes to the rebuild   *)
(***************************************************************************)
FileUrls(f) ==
    IF "url" \in f.cols THEN {canonicalize_url(AsStr(r.url)) : r \in f.rows} \ {NaN} ELSE {}

FileThumbs(f) ==
    IF "thumbnail" \in f.cols
    THEN {md5(Strip(AsStr(r.thumbnail))) : r \in f.rows} \ {None, NaN}
    ELSE {}

FileProducts(f) ==
    IF "product_id" \in f.cols THEN {r.product_id : r \in f.rows} \ {NaN} ELSE {}

\* a file written by to_csv, as read_csv returns it
ReadBack(f) ==
    [f EXCEPT !.rows = {[url |-> CsvRead(r.url), thumbnail |-> CsvRead(r.thumbnail),
                         product_id |-> CsvRead(r.product_id)] : r \in f.rows}]

Stamps == 0..MaxClock
Written == {ts \in Stamps : processed[ts].exists}

url_set == UNION {FileUrls(ReadBack(processed[ts])) : ts \in Written}
thumb_set == UNION {FileThumbs(ReadBack(processed[ts])) : ts \in Written}
prod_set == UNION {FileProducts(ReadBack(processed[ts])) : ts \in Written}

(***************************************************************************)
(* Operations of the DeduplicationManager                                  *)
(***************************************************************************)
\* one more operation, while the bound allows it
Step == ops < MaxOps /\ ops' = ops + 1

\* the state directory before the first run
DedupIdle ==
    /\ urlFile = Absent
    /\ thumbFile = Absent
    /\ prodFile = Absent
    /\ processed = [ts \in Stamps |-> NoFile]
    /\ clock = 0
    /\ run = BlankRun("init")
    /\ prevNew = {}
    /\ ops = 0

InitDedup == DedupIdle /\ MatchIdle /\ ScoreIdle /\ EmbedIdle

\* deduplicate_file(input_path) running to its return
deduplicate_file(cols, batch) ==
    LET su == load_state_set(urlFile)
        st == load_state_set(thumbFile)
        sp == load_state_set(prodFile)
        new == NewIdx(cols, batch, su, st, sp)
    IN /\ ~Raises(cols)
       /\ SaveAll(su \cup NewUrls(cols, batch, new),
                  st \cup NewThumbs(cols, batch, new),
                  sp \cup NewProducts(cols, batch, new), 0)
       /\ processed' = IF new # {}
                       THEN [processed EXCEPT ![clock] = keep_df(cols, batch, new)]
                       ELSE processed
       /\ run' = [op |-> "dedup", cols |-> cols, batch |-> batch,
                  seen_urls |-> su, seen_thumbs |-> st, seen_products |-> sp,
                  reason |-> [i \in Idx(batch) |-> dedup_reason(cols, batch, i, su, st, sp)],
                  kept |-> new]
       /\ prevNew' = IF run.op = "dedup" /\ "url" \in run.cols
                     THEN {run.batch[j].url : j \in run.kept}
                     ELSE {}
       /\ UNCHANGED clock
       /\ Step

\* deduplicate_file on a file whose columns make the key expression raise:
\* nothing has been saved yet
deduplicate_file_raises(cols, batch) ==
    /\ Raises(cols)
    /\ run' = BlankRun("raised")
    /\ prevNew' = {}
    /\ UNCHANGED <<urlFile, thumbFile, prodFile, processed, clock>>
    /\ Step

\* deduplicate_file killed inside one of its three saves
deduplicate_file_crash(cols, batch, crashAt) ==
    LET su == load_state_set(urlFile)
        st == load_state_set(thumbFile)
        sp == load_state_set(prodFile)
        new == NewIdx(cols, batch, su, st, sp)
    IN /\ ~Raises(cols)
       /\ SaveAll(su \cup NewUrls(cols, batch, new),
                  st \cup NewThumbs(cols, batch, new),
                  sp \cup NewProducts(cols, batch, new), crashAt)
       /\ run' = BlankRun("crash")
       /\ prevNew' = {}
       /\ UNCHANGED <<processed, clock>>
       /\ Step

analyze_historical_data ==
    /\ SaveAll(url_set, thumb_set, prod_set, 0)
    /\ run' = BlankRun("analyze")
    /\ prevNew' = {}
    /\ UNCHANGED <<processed, clock>>
    /\ Step

analyze_historical_data_crash(crashAt) ==
    /\ SaveAll(url_set, thumb_set, prod_set, crashAt)
    /\ run' = BlankRun("crash")
    /\ prevNew' = {}
    /\ UNCHANGED <<processed, clock>>
    /\ Step

reset_deduplication_state ==
    /\ urlFile' = Absent
    /\ thumbFile' = Absent
    /\ prodFile' = Absent
    /\ run' = BlankRun("reset")
    /\ prevNew' = {}
    /\ UNCHANGED <<processed, clock>>
    /\ Step

\* a second passes
Tick ==
    /\ clock < MaxClock
    /\ clock' = clock + 1
    /\ UNCHANGED <<urlFile, thumbFile, prodFile, processed, run, prevNew, ops>>

NextDedup ==
    /\ \/ \E cols \in Schemas, batch \in Batches :
             deduplicate_file(cols, batch)
       \/ \E cols \in Schemas, batch \in Batches :
             deduplicate_file_raises(cols, batch)
       \/ \E cols \in Schemas, batch \in Batches, crashAt \in 1..3 :
             deduplicate_file_crash(cols, batch, crashAt)
       \/ analyze_historical_data
       \/ \E crashAt \in 1..3 : analyze_historical_data_crash(crashAt)
       \/ reset_deduplication_state
       \/ Tick
    /\ UNCHANGED <<matchVars, scoreVars, embedVars>>

SpecDedup == InitDedup /\ [][NextDedup]_vars

(***************************************************************************)
(* Properties of the DeduplicationManager                                  *)
(***************************************************************************)
Completed == run.op = "dedup"
Rows == Idx(run.batch)
Rejected(i) == i \notin run.kept

\* the duplicate conditions of row i of the last run, against what it loaded
UrlSeen(i) == "url" \in run.cols /\ UrlOf(run.batch[i]) \in run.seen_urls
ThumbSeen(i) == thumbnail_hash(run.cols, run.batch[i]) \in run.seen_thumbs
IdSeen(i) ==
    /\ "product_id" \in run.cols
    /\ run.seen_products # {}
    /\ run.batch[i].product_id \in run.seen_products
KeyEarlier(i) ==
    /\ HasText(run.cols)
    /\ \E j \in Rows : j < i /\ logical_key(run.batch[j]) = logical_key(run.batch[i])

Recurs(i) == "url" \in run.cols /\ run.batch[i].url \in prevNew

\* C1: a row accepted in batch N that recurs in batch N+1 with the same url cell
\* is labelled duplicate_url and left out of the new rows, its url is already in
\* the persisted set, and a batch made of such rows only leaves the set as it was
C1_RecurringUrlIsDuplicate ==
    Completed =>
        /\ \A i \in Rows :
              Recurs(i) =>
                  /\ run.reason[i] = "duplicate_url"
                  /\ Rejected(i)
                  /\ UrlOf(run.batch[i]) \in run.seen_urls
                  /\ UrlOf(run.batch[i]) \in load_state_set(urlFile)
        /\ (\A i \in Rows : Recurs(i)) => load_state_set(urlFile) = run.seen_urls

C1_Witness ==
    /\ Completed
    /\ \E i \in Rows : Recurs(i) /\ run.batch[i].url = <<" ", "A", "?", "utm">>
    /\ \E i \in Rows : ~Recurs(i) /\ ~Rejected(i)

\* C2: a row is left out of the new rows exactly when its canonical url was in
\* the loaded url set, or its thumbnail hash in the loaded hash set, or its id in
\* the non-empty loaded id set, or its logical key occurred at an earlier row;
\* with an empty loaded id set no row is rejected for its product id
C2_RejectedIffDuplicate ==
    Completed =>
        /\ \A i \in Rows : Rejected(i) <=> (UrlSeen(i) \/ ThumbSeen(i) \/ IdSeen(i) \/ KeyEarlier(i))
        /\ run.seen_products = {} =>
              \A i \in Rows : run.reason[i] # "duplicate_product_id"

C2_Witness ==
    /\ Completed
    /\ Len(run.batch) = 2
    /\ run.seen_urls # {}
    /\ Rejected(2) /\ KeyEarlier(2) /\ ~UrlSeen(2) /\ ~ThumbSeen(2) /\ ~IdSeen(2)
    /\ ~Rejected(1)

Labels == {"duplicate_url", "duplicate_thumbnail", "duplicate_product_id", "duplicate_text", "new_entry"}

\* C3: every row has one label out of the five, new_entry exactly on the rows
\* kept, and a rejected row's label is the first duplicate condition that holds
\* in the order url, thumbnail, product id, text
C3_LabelNamesFirstCondition ==
    Completed =>
        /\ DOMAIN run.reason = Rows
        /\ \A i \in Rows :
              /\ run.reason[i] \in Labels
              /\ run.reason[i] = "new_entry" <=> ~Rejected(i)
              /\ run.reason[i] = "duplicate_url" <=> UrlSeen(i)
              /\ run.reason[i] = "duplicate_thumbnail" <=> (~UrlSeen(i) /\ ThumbSeen(i))
              /\ run.reason[i] = "duplicate_product_id" <=>
                    (~UrlSeen(i) /\ ~ThumbSeen(i) /\ IdSeen(i))
              /\ run.reason[i] = "duplicate_text" <=>
                    (~UrlSeen(i) /\ ~ThumbSeen(i) /\ ~IdSeen(i) /\ KeyEarlier(i))

C3_Witness ==
    /\ Completed
    /\ \E i \in Rows : UrlSeen(i) /\ ThumbSeen(i) /\ run.reason[i] = "duplicate_url"

\* the signals of the rows the last run kept
KeptUrls == IF "url" \in run.cols THEN {UrlOf(run.batch[i]) : i \in run.kept} ELSE {}
KeptThumbs == {thumbnail_hash(run.cols, run.batch[i]) : i \in run.kept} \ {None}
KeptProducts ==
    IF "product_id" \in run.cols THEN {run.batch[i].product_id : i \in run.kept} \ {NaN} ELSE {}

\* C4: after a run each persisted set is the loaded set united with the signals
\* of the rows kept; nothing that occurs on rejected rows only is added
C4_StateGrowsByNewRowsOnly ==
    Completed =>
        /\ urlFile = Saved(run.seen_urls \cup KeptUrls)
        /\ thumbFile = Saved(run.seen_thumbs \cup KeptThumbs)
        /\ prodFile = Saved(run.seen_products \cup KeptProducts)

C4_Witness ==
    /\ Completed
    /\ \E i \in Rows :
          /\ Rejected(i)
          /\ "url" \in run.cols
          /\ UrlOf(run.batch[i]) \notin load_state_set(urlFile)
    /\ KeptUrls # {}

Intact == urlFile.st # "partial" /\ thumbFile.st # "partial" /\ prodFile.st # "partial"

\* C5: a run of deduplicate_file or a rebuild that starts from intact state
\* files removes no url, thumbnail hash or product id that was persisted
C5_NeverRemovedExceptByReset ==
    [][ (Intact /\ ops' = ops + 1 /\ run'.op \in {"dedup", "analyze"}) =>
            /\ load_state_set(urlFile) \subseteq load_state_set(urlFile')
            /\ load_state_set(thumbFile) \subseteq load_state_set(thumbFile')
            /\ load_state_set(prodFile) \subseteq load_state_set(prodFile') ]_vars

\* C6: a state file holds its complete previous or its complete new contents,
\* never a part of them, also when the process dies inside a save
C6_StateFileNeverPartial == Intact

(***************************************************************************)
(* Part II: the matching passes.  A similarity is an integer number of     *)
(* Unit-ths of a point, so that the weighted sums of the code are exact.   *)
(* Each pass is handed what the pass before it wrote.                      *)
(***************************************************************************)
MaxRows == 5        \* rows in the loaded product frame

Unit == 1200        \* one similarity point

\* enhanced_matching_engine.py
MIN_SIMILARITY == 65
SIZE_TOLERANCE == 20        \* per cent
LEXICAL_WEIGHT == 6         \* tenths
SEMANTIC_WEIGHT == 4        \* tenths

\* post_process_unmatched.py
MIN_SIMILARITY_post == 60

\* automated_matching_pipeline.py, merge_results
total_products_888 == 888

(***************************************************************************)
(* Text                                                                    *)
(***************************************************************************)
Punct == {"!", ".", "-", "?", "&"}

\* re.sub(r"[^a-z0-9\s]", " ", text)
PunctToSpace(s) == [i \in DOMAIN s |-> IF s[i] \in Punct THEN " " ELSE s[i]]

\* re.sub(r"\s+", " ", text)
RECURSIVE CollapseSpaces(_)
CollapseSpaces(s) ==
    IF Len(s) < 2 THEN s
    ELSE IF s[1] = " " /\ s[2] = " " THEN CollapseSpaces(Tail(s))
    ELSE <<s[1]>> \o CollapseSpaces(Tail(s))

\* lower and strip first, then punctuation to spaces, then runs of spaces to one
normalize_text(text) ==
    IF text = None \/ text = NaN THEN <<>>
    ELSE CollapseSpaces(PunctToSpace(Strip(Lower(text))))

IsWord(t) == t # " "

\* str.split()
split(s) == SelectSeq(s, IsWord)

ToSet(s) == {s[i] : i \in DOMAIN s}

\* Jaccard overlap of the word sets, 0 when either is empty
token_overlap(a, b) ==
    LET a_tokens == ToSet(split(a))
        b_tokens == ToSet(split(b))
    IN IF a_tokens = {} \/ b_tokens = {} THEN 0
       ELSE (100 * Unit * Cardinality(a_tokens \cap b_tokens))
                \div Cardinality(a_tokens \cup b_tokens)

GENERIC_TITLES ==
    { <<"shampoo", " ", "bar">>, <<"shampoo", " ", "bars">>,
      <<"conditioner", " ", "bar">>, <<"conditioner", " ", "bars">>,
      <<"hair", " ", "shampoo", " ", "bar">>,
      <<"shampoo", " ", "soap", " ", "bars">>,
      <<"body", " ", "butter">>, <<"body", " ", "butters">>,
      <<"face", " ", "serum">>, <<"serum">>, <<"brightening", " ", "serum">>,
      <<"whipped", " ", "body", " ", "butter">>,
      <<"body", " ", "butter", " ", "moisturiser">> }

is_generic_title(clean_name) == clean_name # <<>> /\ clean_name \in GENERIC_TITLES

\* the keyword codes in the order of the dictionary, and the words of the
\* rows below that contain a keyword of the code
SUBCATEGORY_KEYWORDS == <<"vitc", "niacinamide", "hyaluronic", "retinol",
                          "anti_dandruff", "curl", "shea", "vanilla", "mango">>

KeywordIn(code, word) ==
    \/ code = "shea" /\ word = "shea"
    \/ code = "vanilla" /\ word = "vanilla"

detect_subcategory(clean_name) ==
    LET hits == {k \in DOMAIN SUBCATEGORY_KEYWORDS :
                    \E w \in ToSet(split(clean_name)) : KeywordIn(SUBCATEGORY_KEYWORDS[k], w)}
    IN IF clean_name = <<>> \/ hits = {} THEN None
       ELSE <<SUBCATEGORY_KEYWORDS[CHOOSE k \in hits : \A h \in hits : k <= h]>>

RETAILER_STANDARDIZATION(norm) ==
    CASE norm = <<"boots", " ", "uk">> -> <<"boots">>
      [] norm = <<"boots", ".", "com">> -> <<"boots">>
      [] norm = <<"boots">> -> <<"boots">>
      [] norm = <<"amazon", " ", "uk">> -> <<"amazon">>
      [] norm = <<"amazon", ".", "co", ".", "uk">> -> <<"amazon">>
      [] norm = <<"amazon">> -> <<"amazon">>
      [] OTHER -> norm

standardize_retailer_name(name) == RETAILER_STANDARDIZATION(normalize_text(name))

\* float(x) of the size cells that occur
float(x) ==
    CASE x = <<"100">> -> 100 [] x = <<"96">> -> 96 [] x = <<"90">> -> 90
      [] x = <<"50">> -> 50 [] x = <<"0">> -> 0 [] OTHER -> -1
IsNumber(x) == x \in {<<"100">>, <<"96">>, <<"90">>, <<"50">>, <<"0">>}

\* round1 cutting the digits after the first decimal off instead of rounding
round1_truncating(n, d) == (10 * n) \div d

\* round(n / d, 1) in tenths, halves to the even neighbour
round1(n, d) ==
    LET q == (10 * n) \div d
        r == (10 * n) % d
    IN IF 2 * r < d THEN q
       ELSE IF 2 * r > d THEN q + 1
       ELSE IF q % 2 = 0 THEN q ELSE q + 1

\* clip without its upper end
clip_no_upper(score) == IF score < 0 THEN 0 ELSE score

\* max(0.0, min(100.0, score))
clip(score) == IF score < 0 THEN 0 ELSE IF score > 100 * Unit THEN 100 * Unit ELSE score

(***************************************************************************)
(* Product rows                                                            *)
(***************************************************************************)
MRow(pid, ret, name, brand, cat, sv, su, price) ==
    [product_id |-> pid, retailer_name |-> ret, product_name |-> name,
     brand_name |-> brand, category_name |-> cat,
     size_value |-> sv, size_unit |-> su, price |-> price]

\* the rows a loaded frame is drawn from, in the order they are loaded
MatchPool ==
    << MRow(<<"p1">>, <<"Boots", " ", "UK">>, <<"Shea", " ", "Soap">>,
            <<"Aue">>, <<"Soap">>, <<"100">>, <<"ml">>, <<"5">>),
       MRow(<<"p1">>, <<"Amazon">>, <<"Shea", " ", "Soap">>,
            <<"Aue">>, <<"Soap">>, <<"100">>, <<"ml">>, <<"6">>),
       MRow(<<"p1">>, <<"boots">>, <<"shea", " ", "soap", "!">>,
            <<"aue">>, <<"soap">>, <<"100">>, <<"ml">>, <<"5">>),
       MRow(<<"p2">>, <<"Tesco">>, <<"vanilla", " ", "soap">>,
            <<"Aue">>, <<"Soap">>, <<"90">>, <<"ml">>, <<"4">>),
       MRow(<<"p3">>, <<"Amazon">>, <<"shampoo", " ", "bar">>,
            <<"Aue">>, <<"Soap">>, <<"100">>, <<"g">>, <<"7">>),
       MRow(<<"p4">>, <<"Tesco">>, <<"vanilla", " ", "soap">>,
            <<"Other">>, <<"Soap">>, NaN, None, <<"3">>),
       MRow(<<"p5">>, NaN, <<"shampoo", " ", "bar">>,
            NaN, NaN, <<"100">>, <<"ml">>, NaN),
       MRow(<<"p2">>, <<"Amazon">>, <<"shampoo", " ", "bar">>,
            <<"Aue">>, <<"Soap">>, <<"100">>, <<"g">>, <<"8">>) >>

PoolIdx == DOMAIN MatchPool

\* the rows of the pool at the places S, in the order of the pool
Pick(S) ==
    LET f[k \in 0..Len(MatchPool)] ==
            IF k = 0 THEN <<>>
            ELSE IF k \in S THEN Append(f[k - 1], MatchPool[k]) ELSE f[k - 1]
    IN f[Len(MatchPool)]

Datasets == {Pick(S) : S \in {T \in SUBSET PoolIdx : Cardinality(T) <= MaxRows}}

(***************************************************************************)
(* rapidfuzz and the sentence embedding                                    *)
(***************************************************************************)
PoolNames == {normalize_text(MatchPool[k].product_name) : k \in PoolIdx}

NameSets == {ToSet(split(a)) : a \in PoolNames}

\* pairs of names whose word sets are both non-empty and neither holds the other
FuzzOpen ==
    {K \in SUBSET NameSets :
        /\ Cardinality(K) = 2
        /\ \A A, B \in K : A # {} /\ (A \subseteq B => A = B)}

\* pairs of names that differ in their words
SemOpen == {K \in {{split(a), split(b)} : a, b \in PoolNames} : Cardinality(K) = 2}

FuzzVals == {50, 80}
SemVals == {-10, 90}

Libraries == [fuzz : [FuzzOpen -> FuzzVals], sem : [SemOpen -> SemVals]]

\* fuzz.token_set_ratio: 0 for a text without words, 100 when one word set holds
\* the other, else what the library returns for the pair
token_set_ratio(a, b) ==
    LET A == ToSet(split(a))
        B == ToSet(split(b))
    IN IF A = {} \/ B = {} THEN 0
       ELSE IF A \subseteq B \/ B \subseteq A THEN 100
       ELSE lib.fuzz[{A, B}]

\* cosine of the two embeddings times 100; the embedding of a text depends on its
\* words
cosine_similarity(text1, text2) ==
    IF split(text1) = split(text2) THEN 100 ELSE lib.sem[{split(text1), split(text2)}]

\* EmbeddingManager.compute_semantic_similarity: a text without words gets the
\* zero vector, whose cosine with anything is 0
compute_semantic_similarity(text1, text2) ==
    IF split(text1) = <<>> \/ split(text2) = <<>> THEN 0
    ELSE cosine_similarity(text1, text2)

(***************************************************************************)
(* Frames, groups and pairs                                                *)
(***************************************************************************)
IsNull(x) == x = NaN \/ x = None

\* the group keys that occur, in the order groupby visits them
SortedKeys == << <<>>, <<"Hair">>, <<"Soap">>, <<"hair">>, <<"soap">> >>

\* the places of the rows of one group, in frame order; a missing key is in no group
Group(frame, c, Key(_)) ==
    LET f[k \in 0..Len(frame)] ==
            IF k = 0 THEN <<>>
            ELSE IF Key(frame[k]) = c THEN Append(f[k - 1], k) ELSE f[k - 1]
    IN f[Len(frame)]

\* for i in range(n): for j in range(i + 1, n)
RECURSIVE LoopPairs(_)
LoopPairs(g) ==
    IF Len(g) < 2 THEN <<>>
    ELSE [k \in 1..(Len(g) - 1) |-> <<g[1], g[k + 1]>>] \o LoopPairs(Tail(g))

GroupPairs(frame, Key(_)) ==
    LET f[k \in 0..Len(SortedKeys)] ==
            IF k = 0 THEN <<>>
            ELSE f[k - 1] \o LoopPairs(Group(frame, SortedKeys[k], Key))
    IN f[Len(SortedKeys)]

\* matches.append(...) over the pairs visited; Score gives <<>> or one pair
Emit(frame, pairs, Score(_, _)) ==
    LET f[k \in 0..Len(pairs)] ==
            IF k = 0 THEN <<>>
            ELSE f[k - 1] \o Score(frame[pairs[k][1]], frame[pairs[k][2]])
    IN f[Len(pairs)]

Filter(frame, Keep(_)) == SelectSeq(frame, Keep)

category_clean_of(r) == r.category_clean
category_name_of(r) == r.category_name

\* one emitted pair; NoColumn and rank 0 stand for a column the frame lacks
NoColumn == "<no column>"

Pair(row_i, row_j, ret_i, ret_j, sim, source, tier, rank) ==
    [product_1_id |-> row_i.product_id, product_2_id |-> row_j.product_id,
     product_1_name |-> row_i.product_name, product_2_name |-> row_j.product_name,
     retailer_1 |-> ret_i, retailer_2 |-> ret_j,
     similarity |-> sim, match_source |-> source,
     confidence_tier |-> tier, match_rank |-> rank]

PairIds(ms) == {ms[k].product_1_id : k \in DOMAIN ms} \cup {ms[k].product_2_id : k \in DOMAIN ms}

(***************************************************************************)
(* enhanced_matching_engine.py                                             *)
(***************************************************************************)
\* no name below holds "<n> x <size>" or two sizes, so the cells come back as given
parse_multipack_size(size_value, size_unit, product_name) ==
    IF "3x50ml" \in ToSet(product_name) THEN << <<"150">>, <<"ml">> >>
    ELSE <<size_value, size_unit>>

Prepared(r) ==
    [product_id |-> r.product_id, retailer_name |-> r.retailer_name,
     product_name |-> r.product_name, brand_name |-> r.brand_name,
     category_name |-> r.category_name, size_value |-> r.size_value,
     size_unit |-> r.size_unit, price |-> r.price,
     product_clean |-> normalize_text(r.product_name),
     brand_clean |-> normalize_text(r.brand_name),
     category_clean |-> normalize_text(r.category_name),
     retailer_clean |-> standardize_retailer_name(r.retailer_name),
     size_value_norm |-> parse_multipack_size(r.size_value, r.size_unit, r.product_name)[1],
     size_unit_norm |-> parse_multipack_size(r.size_value, r.size_unit, r.product_name)[2]]

PreparedTable == [k \in PoolIdx |-> Prepared(MatchPool[k])]
PreparedOf(r) ==
    IF \E k \in PoolIdx : MatchPool[k] = r
    THEN PreparedTable[CHOOSE k \in PoolIdx : MatchPool[k] = r]
    ELSE Prepared(r)

HasIdAndName(r) == ~IsNull(r.product_id) /\ ~IsNull(r.product_name)

incomplete_record(p) ==
    \/ IsNull(p.price)
    \/ IsNull(p.product_name)
    \/ IsNull(p.size_value_norm)
    \/ p.size_value_norm = <<>>
    \/ p.size_unit_norm = <<>>

Complete(p) == ~incomplete_record(p)

DupKey(p) == <<p.product_id, p.retailer_clean, p.product_clean, p.brand_clean,
               p.category_clean, p.size_value_norm, p.size_unit_norm>>

\* DataFrame.drop_duplicates(subset=...): the first row of every key stays
drop_duplicates(frame) ==
    LET f[k \in 0..Len(frame)] ==
            IF k = 0 THEN <<>>
            ELSE IF \E j \in 1..(k - 1) : DupKey(frame[j]) = DupKey(frame[k])
                 THEN f[k - 1] ELSE Append(f[k - 1], frame[k])
    IN f[Len(frame)]

prepare_matching_frame(frame) ==
    LET kept == Filter(frame, HasIdAndName)
        prep == [k \in DOMAIN kept |-> PreparedOf(kept[k])]
    IN drop_duplicates(Filter(prep, Complete))

size_similarity_and_effect(s1, u1, s2, u2) ==
    IF s1 = None \/ s2 = None \/ u1 = None \/ u2 = None THEN [sim |-> 50, effect |-> 0]
    ELSE IF ~(s1 = NaN \/ IsNumber(s1)) \/ ~(s2 = NaN \/ IsNumber(s2))
         THEN [sim |-> 50, effect |-> 0]
    ELSE IF Lower(AsStr(u1)) # Lower(AsStr(u2)) THEN [sim |-> 0, effect |-> -10]
    \* max(nan, x) is nan and no comparison with nan holds
    ELSE IF s1 = NaN THEN [sim |-> 0, effect |-> -10]
    \* max(x, nan) and min(x, nan) are both x
    ELSE IF s2 = NaN
         THEN IF float(s1) = 0 THEN [sim |-> 50, effect |-> 0]
              ELSE [sim |-> 100, effect |-> 20]
    ELSE LET bigger == IF float(s2) > float(s1) THEN float(s2) ELSE float(s1)
             smaller == IF float(s2) < float(s1) THEN float(s2) ELSE float(s1)
         IN IF bigger = 0 THEN [sim |-> 50, effect |-> 0]
            ELSE IF 100 * (bigger - smaller) <= 5 * bigger THEN [sim |-> 100, effect |-> 20]
            ELSE IF 100 * (bigger - smaller) <= SIZE_TOLERANCE * bigger
                 THEN [sim |-> 50, effect |-> 10]
            ELSE [sim |-> 0, effect |-> -10]

compute_hybrid_name_similarity(name1, name2) ==
    LET fuzz_score == token_set_ratio(name1, name2) * Unit
        overlap_score == token_overlap(name1, name2)
        lexical_score == (6 * fuzz_score + 4 * overlap_score) \div 10
        semantic_score == compute_semantic_similarity(name1, name2) * Unit
    IN [hybrid |-> (LEXICAL_WEIGHT * lexical_score + SEMANTIC_WEIGHT * semantic_score) \div 10,
        lexical |-> lexical_score,
        semantic |-> semantic_score]

\* the score of the double loop of compute_matches_enhanced and its reported
\* components
enhanced_score(row_i, row_j) ==
    LET p1_clean == row_i.product_clean
        p2_clean == row_j.product_clean
        name == compute_hybrid_name_similarity(p1_clean, p2_clean)
        b1 == row_i.brand_clean
        b2 == row_j.brand_clean
        brand_effect == IF b1 # <<>> /\ b2 # <<>>
                        THEN IF b1 = b2 THEN 20 ELSE -25
                        ELSE 0
        brand_similarity == IF b1 # <<>> /\ b2 # <<>>
                            THEN IF b1 = b2 THEN 100 ELSE 0
                            ELSE 50
        size == size_similarity_and_effect(row_i.size_value, row_i.size_unit,
                                           row_j.size_value, row_j.size_unit)
        sub_i == detect_subcategory(p1_clean)
        sub_j == detect_subcategory(p2_clean)
        sub_effect == IF sub_i # None /\ sub_j # None
                      THEN IF sub_i = sub_j THEN 10 ELSE -15
                      ELSE 0
    IN [sum |-> name.hybrid + (brand_effect + size.effect + sub_effect) * Unit,
        score |-> clip(name.hybrid + (brand_effect + size.effect + sub_effect) * Unit),
        lexical_similarity |-> name.lexical,
        semantic_similarity |-> name.semantic,
        brand_similarity |-> brand_similarity,
        size_similarity |-> size.sim]

\* the rows of a pair scored without the test of product id and retailer
enhanced_scored_any_retailer(row_i, row_j) ==
    is_generic_title(row_i.product_clean) = is_generic_title(row_j.product_clean)

\* the rows of a pair the double loop goes on to score
enhanced_scored(row_i, row_j) ==
    /\ ~(row_i.product_id = row_j.product_id /\ row_i.retailer_clean = row_j.retailer_clean)
    /\ is_generic_title(row_i.product_clean) = is_generic_title(row_j.product_clean)

\* the body of the double loop of compute_matches_enhanced
enhanced_pair(row_i, row_j) ==
    LET score == enhanced_score(row_i, row_j).score
    IN IF ~enhanced_scored(row_i, row_j) THEN <<>>
       ELSE IF score < MIN_SIMILARITY * Unit THEN <<>>
       ELSE << Pair(row_i, row_j, row_i.retailer_name, row_j.retailer_name,
                    round1(score, Unit) * (Unit \div 10), NoColumn, NoColumn, 0) >>

compute_matches_enhanced(frame) ==
    Emit(frame, GroupPairs(frame, category_clean_of), enhanced_pair)

\* rows whose product id is on neither side of any pair
compute_unmatched(df_products, matches_df) ==
    LET matched_ids == PairIds(matches_df)
        NotMatched(r) == r.product_id \notin matched_ids
    IN Filter(df_products, NotMatched)

(***************************************************************************)
(* CSV files between the passes                                            *)
(***************************************************************************)
\* a frame of product rows written with to_csv and read with read_csv
read_csv(frame) == [k \in DOMAIN frame |-> [c \in DOMAIN frame[k] |-> CsvRead(frame[k][c])]]

\* the same for a frame of pairs
read_pairs(ms) ==
    [k \in DOMAIN ms |->
        [ms[k] EXCEPT !.product_1_name = CsvRead(@), !.product_2_name = CsvRead(@),
                      !.retailer_1 = CsvRead(@), !.retailer_2 = CsvRead(@)]]

\* == of two cells: a missing cell equals nothing
PyEq(a, b) == a # NaN /\ b # NaN /\ a = b

(***************************************************************************)
(* archive/file_based_enhanced_matcher.py                                  *)
(***************************************************************************)
parse_retailer_name(merchant_data) ==
    IF merchant_data = NaN THEN <<"Unknown">> ELSE merchant_data

FilePrepared(r) ==
    [product_id |-> r.product_id, retailer_name |-> r.retailer_name,
     product_name |-> r.product_name, brand_name |-> r.brand_name,
     category_name |-> r.category_name, size_value |-> r.size_value,
     size_unit |-> r.size_unit, price |-> r.price,
     product_clean |-> normalize_text(r.product_name),
     brand_clean |-> normalize_text(r.brand_name),
     category_clean |-> normalize_text(r.category_name),
     retailer_clean |-> normalize_text(parse_retailer_name(r.retailer_name))]

FilePreparedTable == [k \in PoolIdx |-> FilePrepared(MatchPool[k])]
FilePreparedOf(r) == FilePreparedTable[CHOOSE k \in PoolIdx : MatchPool[k] = r]

get_confidence_tier(similarity) ==
    IF similarity >= 90 * Unit THEN "HIGH"
    ELSE IF similarity >= 75 * Unit THEN "MEDIUM"
    ELSE IF similarity >= 65 * Unit THEN "LOW"
    ELSE "VERY_LOW"

calculate_hybrid_similarity(text1, text2) ==
    LET lexical_sim == (token_set_ratio(text1, text2) * Unit + token_overlap(text1, text2)) \div 2
        semantic_sim == cosine_similarity(text1, text2) * Unit
    IN (LEXICAL_WEIGHT * lexical_sim + SEMANTIC_WEIGHT * semantic_sim) \div 10

\* the body of the double loop of process_input_file
file_pair(prod1, prod2) ==
    LET hybrid == calculate_hybrid_similarity(prod1.product_clean, prod2.product_clean)
        brand_bonus ==
            IF prod1.brand_clean = prod2.brand_clean /\ prod1.brand_clean # <<>> THEN 15
            ELSE IF prod1.brand_clean # prod2.brand_clean /\ prod1.brand_clean # <<>>
                    /\ prod2.brand_clean # <<>> THEN -10
            ELSE 0
        final_similarity == clip(hybrid + brand_bonus * Unit)
    IN IF prod1.retailer_clean = prod2.retailer_clean THEN <<>>
       ELSE IF final_similarity < MIN_SIMILARITY * Unit THEN <<>>
       ELSE << Pair(prod1, prod2, prod1.retailer_clean, prod2.retailer_clean,
                    final_similarity, "main_engine",
                    get_confidence_tier(final_similarity), 1) >>

file_frame(frame) == [k \in DOMAIN frame |-> FilePreparedOf(frame[k])]

file_matches(frame) == Emit(file_frame(frame), GroupPairs(file_frame(frame), category_clean_of), file_pair)

\* matched_in_category over all groups: the places of the rows in an emitted pair
matched_rows(frame) ==
    LET prep == file_frame(frame)
        pairs == GroupPairs(prep, category_clean_of)
        hit == {k \in DOMAIN pairs : file_pair(prep[pairs[k][1]], prep[pairs[k][2]]) # <<>>}
    IN {pairs[k][1] : k \in hit} \cup {pairs[k][2] : k \in hit}

\* unmatched_products: group by group, the rows in no emitted pair
file_unmatched(frame) ==
    LET prep == file_frame(frame)
        hit == matched_rows(frame)
        rest(g) == LET f[k \in 0..Len(g)] ==
                           IF k = 0 THEN <<>>
                           ELSE IF g[k] \in hit THEN f[k - 1] ELSE Append(f[k - 1], prep[g[k]])
                   IN f[Len(g)]
        all[k \in 0..Len(SortedKeys)] ==
            IF k = 0 THEN <<>>
            ELSE all[k - 1] \o rest(Group(prep, SortedKeys[k], category_clean_of))
    IN all[Len(SortedKeys)]

Summary(total, matched, unmatched_count) ==
    [total_products |-> total, matched_products |-> matched,
     unmatched_products |-> unmatched_count,
     coverage_percentage |-> round1(100 * matched, total)]

\* the summary of save_results
save_results_summary(ms, um, original_df) ==
    Summary(Len(original_df), Len(original_df) - Len(um), Len(um))

(***************************************************************************)
(* scripts/post_process_unmatched.py                                       *)
(***************************************************************************)
\* the score of the double loop of find_matches_in_unmatched and its reported
\* components
post_score(row_i, row_j) ==
    LET p1_clean == row_i.product_clean
        p2_clean == row_j.product_clean
        lexical_similarity ==
            (6 * token_set_ratio(p1_clean, p2_clean) * Unit
                + 4 * token_overlap(p1_clean, p2_clean)) \div 10
        b1 == row_i.brand_clean
        b2 == row_j.brand_clean
        both_brands == b1 # NaN /\ b2 # NaN /\ b1 # <<>> /\ b2 # <<>>
        brand_effect == IF both_brands THEN IF b1 = b2 THEN 25 ELSE -15 ELSE 0
        brand_similarity == IF both_brands THEN IF b1 = b2 THEN 100 ELSE 0 ELSE 50
        sized == /\ row_i.size_value # NaN /\ row_j.size_value # NaN
                 /\ row_i.size_unit # NaN /\ row_j.size_unit # NaN
                 /\ IsNumber(row_i.size_value) /\ IsNumber(row_j.size_value)
        s1 == float(row_i.size_value)
        s2 == float(row_j.size_value)
        within10 == 10 * (IF s1 > s2 THEN s1 - s2 ELSE s2 - s1) <= (IF s1 > s2 THEN s1 ELSE s2)
        size_effect ==
            IF ~sized THEN 0
            ELSE IF Lower(row_i.size_unit) # Lower(row_j.size_unit) THEN -5
            ELSE IF s1 = s2 THEN 15
            ELSE IF within10 THEN 10
            ELSE 0
        size_similarity ==
            IF ~sized THEN 50
            ELSE IF Lower(row_i.size_unit) # Lower(row_j.size_unit) THEN 10
            ELSE IF s1 = s2 THEN 100
            ELSE IF within10 THEN 80
            ELSE 30
        score == lexical_similarity + (brand_effect + size_effect) * Unit
        forced ==
            IF PyEq(row_i.product_id, row_j.product_id) THEN 100 * Unit
            ELSE IF lexical_similarity >= 95 * Unit
                 THEN IF score > 95 * Unit THEN score ELSE 95 * Unit
            ELSE IF b1 # NaN /\ b2 # NaN /\ b1 = b2 /\ lexical_similarity >= 70 * Unit
                 THEN score + 10 * Unit
            ELSE score
    IN [sum |-> forced,
        score |-> clip(forced),
        lexical_similarity |-> lexical_similarity,
        brand_similarity |-> brand_similarity,
        size_similarity |-> size_similarity]

\* the rows of a pair the double loop goes on to score
post_scored(row_i, row_j) ==
    ~(PyEq(row_i.product_id, row_j.product_id)
        /\ PyEq(row_i.retailer_clean, row_j.retailer_clean))

\* the body of the double loop of find_matches_in_unmatched
post_pair(row_i, row_j) ==
    LET score == post_score(row_i, row_j).score
    IN IF ~post_scored(row_i, row_j) THEN <<>>
       ELSE IF score < MIN_SIMILARITY_post * Unit THEN <<>>
       ELSE << Pair(row_i, row_j, row_i.retailer_name, row_j.retailer_name,
                    round1(score, Unit) * (Unit \div 10),
                    "post_processing", NoColumn, 0) >>

find_matches_in_unmatched(unmatched_df) ==
    Emit(unmatched_df, GroupPairs(unmatched_df, category_name_of), post_pair)

(***************************************************************************)
(* Consolidation                                                           *)
(***************************************************************************)
\* archive/consolidate_outputs.py
classify_confidence(similarity) ==
    IF similarity >= 88 * Unit THEN "HIGH"
    ELSE IF similarity >= 70 * Unit THEN "MEDIUM"
    ELSE IF similarity >= 65 * Unit THEN "LOW"
    ELSE "VERY_LOW"

add_confidence_tiers(ms) ==
    [k \in DOMAIN ms |-> [ms[k] EXCEPT !.confidence_tier = classify_confidence(ms[k].similarity)]]

\* groupby("product_1_id")["similarity"].rank(method="dense", ascending=False)
dense_rank(ms, k) ==
    1 + Cardinality({ms[l].similarity : l \in {l \in DOMAIN ms :
                        /\ ms[l].product_1_id = ms[k].product_1_id
                        /\ ms[l].similarity > ms[k].similarity}})

add_match_rankings(ms) == [k \in DOMAIN ms |-> [ms[k] EXCEPT !.match_rank = dense_rank(ms, k)]]

add_metadata_columns(ms, source) == [k \in DOMAIN ms |-> [ms[k] EXCEPT !.match_source = source]]

\* the order of the product ids as text
ProductIds == <<"p1", "p2", "p3", "p4", "p5">>
IdOrder(id) == CHOOSE n \in DOMAIN ProductIds : id = <<ProductIds[n]>>

Before(p, q) ==
    \/ IdOrder(p.product_1_id) < IdOrder(q.product_1_id)
    \/ p.product_1_id = q.product_1_id /\ p.match_rank < q.match_rank

RECURSIVE InsertSorted(_, _)
InsertSorted(sorted, p) ==
    IF sorted = <<>> THEN <<p>>
    ELSE IF Before(p, Head(sorted)) THEN <<p>> \o sorted
    ELSE <<Head(sorted)>> \o InsertSorted(Tail(sorted), p)

\* sort_values(["product_1_id", "match_rank"]), rows with equal keys keep their order
sort_values(ms) ==
    LET f[k \in 0..Len(ms)] == IF k = 0 THEN <<>> ELSE InsertSorted(f[k - 1], ms[k])
    IN f[Len(ms)]

create_consolidated_output(main, post) ==
    sort_values(add_match_rankings(add_confidence_tiers(
        add_metadata_columns(read_pairs(main), "main_engine")
            \o add_metadata_columns(read_pairs(post), "post_processing"))))

FrameIds(frame) == {frame[k].product_id : k \in DOMAIN frame}

generate_summary_stats(consolidated_df, unmatched_df) ==
    Summary(Cardinality(PairIds(consolidated_df) \cup FrameIds(unmatched_df)),
            Cardinality(PairIds(consolidated_df)),
            Len(unmatched_df))

\* automated_matching_pipeline.py, merge_results: the recovery pairs take the
\* columns of the primary pairs, with tier LOW and rank 1 where those exist
standardize_post(post) ==
    [k \in DOMAIN post |->
        IF engine = "file"
        THEN [post[k] EXCEPT !.confidence_tier = "LOW", !.match_rank = 1]
        ELSE [post[k] EXCEPT !.match_source = NoColumn]]

updated_unmatched(um, post) ==
    LET newly_matched_ids == PairIds(post)
        Still(r) == r.product_id \notin newly_matched_ids
    IN Filter(um, Still)

\* what the files of the primary pass allow the later passes to read
MatchesReadable == matches # <<>>
UnmatchedReadable == engine = "enhanced" \/ unmatched # <<>>

(***************************************************************************)
(* The passes of the matching pipeline                                     *)
(***************************************************************************)
InitMatch ==
    /\ DedupIdle
    /\ ScoreIdle
    /\ EmbedIdle
    /\ df \in Datasets
    /\ lib \in Libraries
    /\ stage = "loaded"
    /\ engine = "none"
    /\ matches = <<>>
    /\ unmatched = <<>>
    /\ post_input = <<>>
    /\ post_matches = <<>>
    /\ final_matches = <<>>
    /\ final_unmatched = <<>>
    /\ summary = <<>>

\* enhanced_matching_engine.main: prepare, match, save matched and unmatched
enhanced_main ==
    LET df_for_matching == prepare_matching_frame(df)
        matches_df == compute_matches_enhanced(df_for_matching)
    IN /\ stage = "loaded"
       /\ engine' = "enhanced"
       /\ matches' = matches_df
       /\ unmatched' = compute_unmatched(df_for_matching, matches_df)
       /\ stage' = "primary"
       /\ UNCHANGED <<df, lib, post_input, post_matches, final_matches, final_unmatched, summary>>

\* FileBasedMatcher.run: process_input_file, then save_results with its summary
file_based_run ==
    /\ stage = "loaded"
    /\ df # <<>>
    /\ engine' = "file"
    /\ matches' = file_matches(df)
    /\ unmatched' = file_unmatched(df)
    /\ summary' = Append(summary, save_results_summary(file_matches(df), file_unmatched(df), df))
    /\ stage' = "primary"
    /\ UNCHANGED <<df, lib, post_input, post_matches, final_matches, final_unmatched>>

\* FileBasedMatcher.run on a file without rows: both csv files are written, then
\* the coverage divides by zero
file_based_run_raises ==
    /\ stage = "loaded"
    /\ df = <<>>
    /\ engine' = "file"
    /\ matches' = <<>>
    /\ unmatched' = <<>>
    /\ stage' = "failed"
    /\ UNCHANGED <<df, lib, post_input, post_matches, final_matches, final_unmatched, summary>>

\* an unmatched file left in data/processed by a run before this one: two rows
\* of the product p2 that matched nothing
EarlierUnmatched == compute_unmatched(prepare_matching_frame(Pick({4, 8})), <<>>)

\* find_latest_file("unmatched_products_enhanced_*.csv"): the primary passes
\* write unmatched_products.csv (save_outputs_enhanced) and
\* unmatched_products_<ts>.csv (save_results), never a file of this name, so the
\* latest one is whatever the directory holds: a file with the rows the primary
\* pass has just left unmatched, or the file of an earlier run
find_latest_file == {unmatched, EarlierUnmatched}

\* post_process_unmatched.main: pairs among the rows of the file it finds;
\* nothing is written when there is none
post_process_main ==
    \E unmatched_file \in find_latest_file :
        /\ stage = "primary"
        /\ unmatched_file = unmatched => UnmatchedReadable
        /\ post_input' = unmatched_file
        /\ post_matches' = find_matches_in_unmatched(read_csv(unmatched_file))
        /\ stage' = "recovery"
        /\ UNCHANGED <<df, lib, engine, matches, unmatched, final_matches,
                       final_unmatched, summary>>

\* post_process_unmatched.main when the directory holds no file of the names it
\* looks for, or an unmatched file without a header
post_process_main_raises ==
    /\ stage = "primary"
    /\ stage' = "failed"
    /\ UNCHANGED <<df, lib, engine, matches, unmatched, post_input, post_matches,
                   final_matches, final_unmatched, summary>>

\* MatchingPipeline.merge_results
merge_results ==
    LET main_matches == read_pairs(matches)
        post == standardize_post(read_pairs(post_matches))
        remaining == updated_unmatched(read_csv(unmatched), post)
    IN /\ stage = "recovery"
       /\ MatchesReadable /\ UnmatchedReadable /\ post_matches # <<>>
       /\ final_matches' = main_matches \o post
       /\ final_unmatched' = remaining
       /\ summary' = Append(summary,
             Summary(total_products_888, total_products_888 - Len(remaining), Len(remaining)))
       /\ stage' = "final"
       /\ UNCHANGED <<df, lib, engine, matches, unmatched, post_input, post_matches>>

\* MatchingPipeline.merge_results with one of its three files missing or empty
merge_results_raises ==
    /\ stage = "recovery"
    /\ ~(MatchesReadable /\ UnmatchedReadable /\ post_matches # <<>>)
    /\ stage' = "failed"
    /\ UNCHANGED <<df, lib, engine, matches, unmatched, post_input, post_matches,
                   final_matches, final_unmatched, summary>>

\* consolidate_outputs.main, with or without pairs of the recovery pass
consolidate_outputs_main ==
    LET unmatched_df == read_csv(unmatched)
        consolidated_df == create_consolidated_output(matches, post_matches)
    IN /\ stage \in {"primary", "recovery"}
       /\ MatchesReadable /\ UnmatchedReadable
       /\ final_matches' = consolidated_df
       /\ summary' = Append(summary, generate_summary_stats(consolidated_df, unmatched_df))
       /\ final_unmatched' = unmatched_df
       /\ stage' = "final"
       /\ UNCHANGED <<df, lib, engine, matches, unmatched, post_input, post_matches>>

\* consolidate_outputs.main without a readable file of primary pairs or of
\* unmatched rows
consolidate_outputs_main_raises ==
    /\ stage \in {"primary", "recovery"}
    /\ ~(MatchesReadable /\ UnmatchedReadable)
    /\ stage' = "failed"
    /\ UNCHANGED <<df, lib, engine, matches, unmatched, post_input, post_matches,
                   final_matches, final_unmatched, summary>>

NextMatch ==
    /\ \/ enhanced_main
       \/ file_based_run
       \/ file_based_run_raises
       \/ post_process_main
       \/ post_process_main_raises
       \/ merge_results
       \/ merge_results_raises
       \/ consolidate_outputs_main
       \/ consolidate_outputs_main_raises
    /\ UNCHANGED <<dedupVars, scoreVars, embedVars>>

SpecMatch == InitMatch /\ [][NextMatch]_vars

(***************************************************************************)
(* Properties of the matching pipeline                                     *)
(***************************************************************************)
Final == stage = "final"
FinalPairs == DOMAIN final_matches
IdsOf(p) == {p.product_1_id, p.product_2_id}

SameProductSameRetailer(p) ==
    /\ p.product_1_id = p.product_2_id
    /\ standardize_retailer_name(p.retailer_1) = standardize_retailer_name(p.retailer_2)

\* C7: in the consolidated pairs no pair joins a product id with itself at one
\* normalized retailer, and no two pairs join the same two product ids
C7_NoSelfPairNoRepeatedPair ==
    Final =>
        /\ \A k \in FinalPairs : ~SameProductSameRetailer(final_matches[k])
        /\ \A k, l \in FinalPairs :
              k # l => IdsOf(final_matches[k]) # IdsOf(final_matches[l])

\* C8: no product of the final unmatched rows is on either side of a final pair
C8_UnmatchedHaveNoPair ==
    Final => \A u \in DOMAIN final_unmatched :
                final_unmatched[u].product_id \notin PairIds(final_matches)

\* coverage_percentage is kept in tenths of a per cent
Exact(s) == s.coverage_percentage * s.total_products = 1000 * s.matched_products

Distance(s) ==
    LET d == s.coverage_percentage * s.total_products - 1000 * s.matched_products
    IN IF d < 0 THEN -d ELSE d

\* C9 as stated: every summary has coverage_percentage = 100 * matched / total exactly
C9_CoverageExact == \A k \in DOMAIN summary : Exact(summary[k])

\* C9 amended: every summary has coverage_percentage = 100 * matched / total
\* rounded to one decimal, that is within 0.05 of it
C9_CoverageRoundedToOneDecimal ==
    \A k \in DOMAIN summary : 2 * Distance(summary[k]) <= summary[k].total_products

C9_Witness ==
    /\ Final
    /\ \E k \in DOMAIN summary : ~Exact(summary[k]) /\ summary[k].matched_products > 0

\* C10: where the final pairs carry a rank, it is the dense rank of the pair's
\* similarity among the pairs with the same product_1, best first
C10_RankIsDenseRank ==
    Final =>
        \A k \in FinalPairs :
            final_matches[k].match_rank # 0 =>
                final_matches[k].match_rank =
                    1 + Cardinality({final_matches[l].similarity : l \in {l \in FinalPairs :
                            /\ final_matches[l].product_1_id = final_matches[k].product_1_id
                            /\ final_matches[l].similarity > final_matches[k].similarity}})

\* the tier that goes with a similarity: 88 and more HIGH, 70 and more MEDIUM,
\* 65 and more LOW, less VERY_LOW
TierOf(p) ==
    IF p.similarity >= 88 * Unit THEN "HIGH"
    ELSE IF p.similarity >= 70 * Unit THEN "MEDIUM"
    ELSE IF p.similarity >= 65 * Unit THEN "LOW"
    ELSE "VERY_LOW"

\* C11: every final pair that carries a confidence tier carries the tier that
\* goes with its own similarity
C11_TierFollowsSimilarity ==
    Final =>
        \A k \in FinalPairs :
            final_matches[k].confidence_tier # NoColumn =>
                final_matches[k].confidence_tier = TierOf(final_matches[k])

GenericSide(name) == is_generic_title(normalize_text(name))

\* C12: no final pair joins a row with a generic title and a row without one
C12_NoHalfGenericPair ==
    Final =>
        \A k \in FinalPairs :
            GenericSide(final_matches[k].product_1_name)
                = GenericSide(final_matches[k].product_2_name)

(***************************************************************************)
(* Part III: normalize_text, size_similarity_and_effect and the two        *)
(* scoring loops called on two rows, in either order                       *)
(***************************************************************************)
MaxCalls == 2       \* calls made on one pair of rows

\* the rows the functions are called on; the name of the sixth holds a
\* multipack, so parse_multipack_size gives it a size although its size_value
\* cell is missing
ScoreRows ==
    << MRow(<<"p1">>, <<"Boots", " ", "UK">>, <<"Shea", " ", "Soap">>,
            <<"Aue">>, <<"Soap">>, <<"100">>, <<"ml">>, <<"5">>),
       MRow(<<"p2">>, <<"Tesco">>, <<"Shea", " ", "Soap">>,
            <<"Aue">>, <<"Soap">>, <<"96">>, <<"ml">>, <<"5">>),
       MRow(<<"p3">>, <<"Amazon">>, <<"Shea", " ", "Soap">>,
            <<"Other">>, <<"Soap">>, <<"90">>, <<"ml">>, <<"6">>),
       MRow(<<"p4">>, <<"Tesco">>, <<"vanilla", " ", "soap">>,
            <<"Aue">>, <<"Soap">>, <<"50">>, <<"ml">>, <<"4">>),
       MRow(<<"p5">>, <<"Amazon">>, <<"!", "shea", " ", "soap", "!">>,
            NaN, <<"Soap">>, <<"100">>, <<"g">>, <<"7">>),
       MRow(<<"p1">>, <<"Amazon">>, <<"Shea", " ", "Soap", " ", "3x50ml">>,
            <<"Aue">>, <<"Soap">>, NaN, <<"ml">>, <<"9">>),
       MRow(<<"p2">>, <<"Amazon">>, <<"Shea", " ", "Soap">>,
            <<"Aue">>, <<"Soap">>, NaN, None, <<"5">>) >>

ScoreNames == {normalize_text(ScoreRows[k].product_name) : k \in DOMAIN ScoreRows}

ScoreNameSets == {ToSet(split(n)) : n \in ScoreNames}

\* what the two libraries may return for the names of these rows
ScoreLibraries ==
    [fuzz : [{K \in SUBSET ScoreNameSets :
                /\ Cardinality(K) = 2
                /\ \A A, B \in K : A # {} /\ (A \subseteq B => A = B)} -> FuzzVals],
     sem : [{K \in {{split(n), split(o)} : n, o \in ScoreNames} : Cardinality(K) = 2}
                -> SemVals]]

InitScore ==
    /\ DedupIdle
    /\ EmbedIdle
    /\ df = <<>>
    /\ lib \in ScoreLibraries
    /\ stage = "idle"
    /\ engine = "none"
    /\ matches = <<>>
    /\ unmatched = <<>>
    /\ post_input = <<>>
    /\ post_matches = <<>>
    /\ final_matches = <<>>
    /\ final_unmatched = <<>>
    /\ summary = <<>>
    /\ call_args \in [row_a : ToSet(ScoreRows), row_b : ToSet(ScoreRows)]
    /\ call_log = <<>>

Orders == {"ab", "ba"}

First(order) == IF order = "ab" THEN call_args.row_a ELSE call_args.row_b
Second(order) == IF order = "ab" THEN call_args.row_b ELSE call_args.row_a

Call(fn, order, arg, val) == [fn |-> fn, order |-> order, arg |-> arg, val |-> val]

Returned(c) ==
    /\ Len(call_log) < MaxCalls
    /\ call_log' = Append(call_log, c)
    /\ UNCHANGED call_args

\* normalize_text on the name of the first row, or on what the call before
\* returned
normalize_text_call ==
    LET text == IF call_log # <<>> /\ call_log[Len(call_log)].fn = "normalize_text"
                THEN call_log[Len(call_log)].val
                ELSE call_args.row_a.product_name
    IN Returned(Call("normalize_text", "ab", text, normalize_text(text)))

\* size_similarity_and_effect on the size cells of the two rows
size_similarity_and_effect_call(order) ==
    LET x == First(order)
        y == Second(order)
    IN Returned(Call("size_similarity_and_effect", order,
                     <<x.size_value, x.size_unit, y.size_value, y.size_unit>>,
                     size_similarity_and_effect(x.size_value, x.size_unit,
                                                y.size_value, y.size_unit)))

\* a row prepare_matching_frame keeps
Kept(r) == HasIdAndName(r) /\ Complete(Prepared(r))

\* the scoring of compute_matches_enhanced on two rows of the prepared frame
enhanced_score_call(order) ==
    LET x == Prepared(First(order))
        y == Prepared(Second(order))
    IN /\ Kept(First(order)) /\ Kept(Second(order))
       /\ enhanced_scored(x, y)
       /\ Returned(Call("enhanced_score", order, <<>>, enhanced_score(x, y)))

\* the scoring of find_matches_in_unmatched on two rows of an unmatched file
post_score_call(order) ==
    LET rows == read_csv(<<FilePrepared(First(order)), FilePrepared(Second(order))>>)
    IN /\ post_scored(rows[1], rows[2])
       /\ Returned(Call("post_score", order, <<>>, post_score(rows[1], rows[2])))

NextScore ==
    /\ \/ normalize_text_call
       \/ \E order \in Orders : size_similarity_and_effect_call(order)
       \/ \E order \in Orders : enhanced_score_call(order)
       \/ \E order \in Orders : post_score_call(order)
    /\ UNCHANGED <<dedupVars, matchVars, embedVars>>

SpecScore == InitScore /\ [][NextScore]_vars

(***************************************************************************)
(* Properties of the functions                                             *)
(***************************************************************************)
Calls == DOMAIN call_log

\* C13: normalize_text applied to its own result returns that result
C13_NormalizeTextIdempotent ==
    \A k \in Calls :
        (/\ k > 1
         /\ call_log[k].fn = "normalize_text"
         /\ call_log[k - 1].fn = "normalize_text")
            => call_log[k].val = call_log[k].arg

\* C14: the score of either pass and every component of it are the same for
\* (a, b) and for (b, a)
C14_ScoringSymmetric ==
    \A k, l \in Calls :
        (/\ call_log[k].fn \in {"enhanced_score", "post_score"}
         /\ call_log[l].fn = call_log[k].fn
         /\ call_log[l].order # call_log[k].order)
            => call_log[l].val = call_log[k].val

Missing(x) == x = None \/ x = NaN

\* what the four cells s1, u1, s2, u2 are to give: neutral when one is missing,
\* else by the units and the relative difference of the sizes
SizeExpected(arg) ==
    LET s1 == float(arg[1])
        s2 == float(arg[3])
        bigger == IF s1 > s2 THEN s1 ELSE s2
        smaller == IF s1 > s2 THEN s2 ELSE s1
    IN IF \E k \in 1..4 : Missing(arg[k]) THEN [sim |-> 50, effect |-> 0]
       ELSE IF Lower(arg[2]) # Lower(arg[4]) THEN [sim |-> 0, effect |-> -10]
       ELSE IF 100 * (bigger - smaller) <= 5 * bigger THEN [sim |-> 100, effect |-> 20]
       ELSE IF 100 * (bigger - smaller) <= 20 * bigger THEN [sim |-> 50, effect |-> 10]
       ELSE [sim |-> 0, effect |-> -10]

\* C20: size_similarity_and_effect returns (100, +20), (50, +10) or (0, -10) by
\* the units and the relative difference, and (50, 0) when a cell is missing
C20_SizeSimilarityTable ==
    \A k \in Calls :
        call_log[k].fn = "size_similarity_and_effect"
            => call_log[k].val = SizeExpected(call_log[k].arg)

\* two rows the recovery pass loaded that carry one product id and come
\* from different retailers
SameProductElsewhere(u, v) ==
    /\ u < v
    /\ post_input[u].product_id = post_input[v].product_id
    /\ post_input[u].retailer_clean # post_input[v].retailer_clean

\* the pair ms[k] joins those two rows
Joins(ms, k, u, v) ==
    /\ ms[k].product_1_id = post_input[u].product_id
    /\ ms[k].product_2_id = post_input[v].product_id
    /\ ms[k].retailer_1 = post_input[u].retailer_name
    /\ ms[k].retailer_2 = post_input[v].retailer_name

\* C15: once the recovery pass has run, two rows of the unmatched file it read
\* that carry one product id and come from different retailers are a recovery
\* pair of similarity 100, and in the final pairs that pair has tier HIGH
C15_SameProductForcedTo100 ==
    \A u, v \in DOMAIN post_input :
        SameProductElsewhere(u, v) =>
            /\ (stage = "recovery" \/ (Final /\ post_matches # <<>>)) =>
                    \E k \in DOMAIN post_matches :
                        /\ Joins(post_matches, k, u, v)
                        /\ post_matches[k].similarity = 100 * Unit
            /\ (Final /\ post_matches # <<>>) =>
                    \E k \in FinalPairs :
                        /\ Joins(final_matches, k, u, v)
                        /\ final_matches[k].similarity = 100 * Unit
                        /\ final_matches[k].confidence_tier = "HIGH"

\* what a run has put on disk
PairsWritten == engine = "file" \/ (engine = "enhanced" /\ matches # <<>>) \/ Final
UnmatchedWritten == engine # "none"
SummaryWritten == summary # <<>>

\* the run has ended, by an exception or after its last step
Ended == stage \in {"failed", "final"}

\* the latest summary counts the rows of the latest unmatched set, and its
\* matched and unmatched counts add up to its total
Agree ==
    LET s == summary[Len(summary)]
        um == IF Final THEN final_unmatched ELSE unmatched
    IN /\ s.unmatched_products = Len(um)
       /\ s.matched_products + s.unmatched_products = s.total_products

\* C16: a run that has ended has written its pairs, its unmatched rows and its
\* summary, and they agree, or it has written none of them
C16_AllOutputsOrNone ==
    Ended =>
        \/ ~PairsWritten /\ ~UnmatchedWritten /\ ~SummaryWritten
        \/ PairsWritten /\ UnmatchedWritten /\ SummaryWritten /\ Agree

(***************************************************************************)
(* Part IV: EmbeddingManager.  A vector is named by the text the model     *)
(* encoded to get it.                                                      *)
(***************************************************************************)
MaxEmbedCalls == 2      \* calls made on one EmbeddingManager
MaxTexts == 2           \* texts of one batch

EmbedTexts ==
    { <<"Shea", " ", "Soap">>, <<"shea", " ", "soap">>, <<"vanilla", " ", "soap">>,
      <<" ">>, <<>> }

\* np.zeros(384)
Zeros == <<"<zeros>">>

\* not text or text.strip() == ""
Blank(text) == text = <<>> \/ Strip(text) = <<>>

Entry(key, vec) == [key |-> key, vec |-> vec]

Keys(c) == {e.key : e \in c}

\* cache[key]
Lookup(c, key) == (CHOOSE e \in c : e.key = key).vec

\* cache[key] = vec
Store(c, key, vec) == {e \in c : e.key # key} \cup {Entry(key, vec)}

\* the cache file of an earlier run, when there is one
CacheFiles == { {}, {Entry(<<"vanilla", " ", "soap">>, <<"vanilla", " ", "soap">>)} }

\* what the cache file can be when main starts
CacheFileStates == {NoCacheFile, UnreadableCacheFile} \cup {Pickled(c) : c \in CacheFiles}

InitEmbed ==
    /\ DedupIdle
    /\ MatchIdle
    /\ ScoreIdle
    /\ cache = {}
    /\ encode_log = <<>>
    /\ emb_ret = <<>>
    /\ emb_calls = 0
    /\ cache_file \in CacheFileStates
    /\ emb_main = NotStarted

\* _load_cache: the pickled dict, or {} when there is no file or pickle.load or
\* open raises
load_cache(f) == IF f.st = "ok" THEN f.entries ELSE {}

\* EmbeddingManager(): self.cache = {}, then _load_cache; main enters its try
EmbeddingManager_init ==
    /\ emb_main.pc = "start"
    /\ cache' = load_cache(cache_file)
    /\ emb_main' = [emb_main EXCEPT !.pc = "try"]
    /\ UNCHANGED <<cache_file, encode_log, emb_ret, emb_calls>>

\* one more call made by the matching inside the try block of main
EmbedStep ==
    /\ emb_main.pc = "try"
    /\ emb_calls < MaxEmbedCalls
    /\ emb_calls' = emb_calls + 1
    /\ UNCHANGED <<cache_file, emb_main>>

get_embedding(text) ==
    LET cache_key == normalize_text(text)
    IN /\ EmbedStep
       /\ IF Blank(text)
          THEN /\ emb_ret' = <<Zeros>>
               /\ UNCHANGED <<cache, encode_log>>
          ELSE IF cache_key \in Keys(cache)
          THEN /\ emb_ret' = <<Lookup(cache, cache_key)>>
               /\ UNCHANGED <<cache, encode_log>>
          ELSE /\ encode_log' = Append(encode_log, <<text>>)
               /\ cache' = Store(cache, cache_key, text)
               /\ emb_ret' = <<text>>

\* the texts of a batch that are not blank and whose key is not cached, in order
Uncached(texts) ==
    LET f[k \in 0..Len(texts)] ==
            IF k = 0 THEN <<>>
            ELSE IF ~Blank(texts[k]) /\ normalize_text(texts[k]) \notin Keys(cache)
                 THEN Append(f[k - 1], texts[k]) ELSE f[k - 1]
    IN f[Len(texts)]

\* the cache after the vectors of the new texts are stored one after the other
StoreAll(new) ==
    LET f[k \in 0..Len(new)] ==
            IF k = 0 THEN cache
            ELSE Store(f[k - 1], normalize_text(new[k]), new[k])
    IN f[Len(new)]

get_embeddings_batch(texts) ==
    LET uncached_texts == Uncached(texts)
    IN /\ EmbedStep
       /\ emb_ret' = [k \in DOMAIN texts |->
                        IF Blank(texts[k]) THEN Zeros
                        ELSE IF normalize_text(texts[k]) \in Keys(cache)
                             THEN Lookup(cache, normalize_text(texts[k]))
                        ELSE texts[k]]
       /\ IF uncached_texts # <<>>
          THEN /\ encode_log' = Append(encode_log, uncached_texts)
               /\ cache' = StoreAll(uncached_texts)
          ELSE UNCHANGED <<cache, encode_log>>

SaveOutcomes == {"saved", "not opened", "cut short"}

\* _save_cache: the file after makedirs, open(cache_file, "wb") and pickle.dump;
\* an exception of any of them is logged and goes no further
save_cache(outcome) ==
    CASE outcome = "saved" -> Pickled(cache)
      [] outcome = "cut short" -> UnreadableCacheFile
      [] OTHER -> cache_file

\* cleanup without a save when a step has raised
cleanup_unless_raised(raised, outcome) ==
    IF raised
    THEN /\ UNCHANGED cache_file
         /\ emb_main' = [pc |-> "raised", error |-> "step", saves |-> emb_main.saves]
    ELSE /\ cache_file' = save_cache(outcome)
         /\ emb_main' = [pc |-> "returned", error |-> "none",
                         saves |-> Append(emb_main.saves, cache)]

\* how main leaves its try block: a step raised and the except clause logs and
\* re-raises, or none did; either way the finally clause calls cleanup, which
\* is _save_cache
cleanup(raised, outcome) ==
    /\ cache_file' = save_cache(outcome)
    /\ emb_main' = [pc |-> IF raised THEN "raised" ELSE "returned",
                    error |-> IF raised THEN "step" ELSE "none",
                    saves |-> Append(emb_main.saves, cache)]

main_exit(raised, outcome) ==
    /\ emb_main.pc = "try"
    /\ cleanup(raised, outcome)
    /\ UNCHANGED <<cache, encode_log, emb_ret, emb_calls>>

NextEmbed ==
    /\ \/ EmbeddingManager_init
       \/ \E text \in EmbedTexts : get_embedding(text)
       \/ \E texts \in SeqsUpTo(EmbedTexts, MaxTexts) : get_embeddings_batch(texts)
       \/ \E raised \in BOOLEAN, outcome \in SaveOutcomes : main_exit(raised, outcome)
    /\ UNCHANGED <<dedupVars, matchVars, scoreVars>>

SpecEmbed == InitEmbed /\ [][NextEmbed]_vars

(***************************************************************************)
(* Properties of the EmbeddingManager                                      *)
(***************************************************************************)
\* the places of the texts handed to the model: invocation and position in it
Encoded == {p \in (DOMAIN encode_log) \X (1..MaxTexts) : p[2] <= Len(encode_log[p[1]])}

KeyAt(p) == normalize_text(encode_log[p[1]][p[2]])

\* C17: the model encodes at most one text for every cache key
C17_EncodedOncePerKey ==
    \A p, q \in Encoded : KeyAt(p) = KeyAt(q) => p = q

\* the product ids of the loaded rows that have an id, a name and a category
Supplied ==
    {df[k].product_id : k \in {k \in DOMAIN df :
        ~IsNull(df[k].product_id) /\ ~IsNull(df[k].product_name)
            /\ ~IsNull(df[k].category_name)}}

PrimaryDone == stage \in {"primary", "recovery", "final"}

\* C18: after the primary pass, and again after the consolidation, every supplied
\* product id is on a side of a pair or in the unmatched rows
C18_EveryProductMatchedOrUnmatched ==
    /\ PrimaryDone => Supplied \subseteq PairIds(matches) \cup FrameIds(unmatched)
    /\ Final => Supplied \subseteq PairIds(final_matches) \cup FrameIds(final_unmatched)

\* x clamped to [0, 100]
Clamped(x) == IF x < 0 THEN 0 ELSE IF x > 100 * Unit THEN 100 * Unit ELSE x

\* the pair p joins the rows x and y, in this order
PairOfRows(p, x, y) ==
    /\ p.product_1_id = x.product_id /\ p.product_2_id = y.product_id
    /\ p.product_1_name = x.product_name /\ p.product_2_name = y.product_name
    /\ p.retailer_1 = x.retailer_name /\ p.retailer_2 = y.retailer_name

\* the rows the two passes of the enhanced engine pair up
PrimaryFrame == prepare_matching_frame(df)
RecoveryFrame == read_csv(post_input)

PrimaryScored ==
    {p \in ToSet(GroupPairs(PrimaryFrame, category_clean_of)) :
        enhanced_scored(PrimaryFrame[p[1]], PrimaryFrame[p[2]])}

RecoveryScored ==
    {p \in ToSet(GroupPairs(RecoveryFrame, category_name_of)) :
        post_scored(RecoveryFrame[p[1]], RecoveryFrame[p[2]])}

PrimarySum(p) == enhanced_score(PrimaryFrame[p[1]], PrimaryFrame[p[2]]).sum
RecoverySum(p) == post_score(RecoveryFrame[p[1]], RecoveryFrame[p[2]]).sum

\* the sum clamped and rounded to one decimal, as a pair reports it
Reported(x) == round1(Clamped(x), Unit) * (Unit \div 10)

PrimaryEmitted(p) ==
    \E k \in DOMAIN matches :
        /\ PairOfRows(matches[k], PrimaryFrame[p[1]], PrimaryFrame[p[2]])
        /\ matches[k].similarity = Reported(PrimarySum(p))

RecoveryEmitted(p) ==
    \E k \in DOMAIN post_matches :
        /\ PairOfRows(post_matches[k], RecoveryFrame[p[1]], RecoveryFrame[p[2]])
        /\ post_matches[k].similarity = Reported(RecoverySum(p))

RecoveryDone == stage = "recovery" \/ (Final /\ post_matches # <<>>)

\* C19: a scored pair is emitted, with its clamped score, exactly when that score
\* is at least 65 in the primary pass and 60 in the recovery pass, and every
\* emitted pair has a similarity from that threshold to 100
C19_EmittedIffClampedScoreReachesThreshold ==
    /\ (engine = "enhanced" /\ PrimaryDone) =>
          /\ \A p \in PrimaryScored :
                PrimaryEmitted(p) <=> Clamped(PrimarySum(p)) >= 65 * Unit
          /\ \A k \in DOMAIN matches :
                /\ matches[k].similarity >= 65 * Unit
                /\ matches[k].similarity <= 100 * Unit
    /\ (engine = "file" /\ PrimaryDone) =>
          \A k \in DOMAIN matches :
                /\ matches[k].similarity >= 65 * Unit
                /\ matches[k].similarity <= 100 * Unit
    /\ (engine = "enhanced" /\ RecoveryDone) =>
          /\ \A p \in RecoveryScored :
                RecoveryEmitted(p) <=> Clamped(RecoverySum(p)) >= 60 * Unit
          /\ \A k \in DOMAIN post_matches :
                /\ post_matches[k].similarity >= 60 * Unit
                /\ post_matches[k].similarity <= 100 * Unit

\* both passes have emitted a pair whose sum lies above 100 and have scored a
\* pair they did not emit
C19_Witness ==
    /\ engine = "enhanced" /\ Final /\ post_matches # <<>>
    /\ \E p \in PrimaryScored : PrimaryEmitted(p) /\ PrimarySum(p) > 100 * Unit
    /\ \E p \in PrimaryScored : ~PrimaryEmitted(p)
    /\ \E p \in RecoveryScored : RecoveryEmitted(p)

\* a result of the recovery scoring to which none of its three special cases
\* applied: not one product id, lexical similarity below 95, and not the same
\* brand with a lexical similarity of 70 or more
NoOverride(order, val) ==
    /\ ~PyEq(First(order).product_id, Second(order).product_id)
    /\ val.lexical_similarity < 95 * Unit
    /\ ~(val.brand_similarity = 100 /\ val.lexical_similarity >= 70 * Unit)

\* C21: on two rows to which no special case of the recovery pass applies, the
\* recovery scoring returns the final score the primary scoring returns
C21_RecoveryScoresAsPrimary ==
    \A k, l \in Calls :
        (/\ call_log[k].fn = "enhanced_score"
         /\ call_log[l].fn = "post_score"
         /\ call_log[l].order = call_log[k].order
         /\ NoOverride(call_log[l].order, call_log[l].val))
            => call_log[l].val.score = call_log[k].val.score

\* C22: the recovery pass has read the unmatched rows the primary pass of the run
\* wrote, every product of a recovery pair was left unmatched by that pass, and
\* no recovery pair joins the two products of a primary pair
C22_RecoveryReadsPrimaryUnmatched ==
    RecoveryDone =>
        /\ post_input = unmatched
        /\ \A k \in DOMAIN post_matches :
              /\ IdsOf(post_matches[k]) \cap PairIds(matches) = {}
              /\ \A l \in DOMAIN matches : IdsOf(post_matches[k]) # IdsOf(matches[l])

(***************************************************************************)
(* Part V: the loading of the state files and of the embedding cache       *)
(***************************************************************************)
\* what a state file can be when a run finds it
StateFiles == {Absent, Partial, Unreadable, Saved({}), Saved({<<"a">>})}

StateKeys == {"seen_urls", "seen_thumbnails", "seen_products"}

\* the file behind load_seen_urls, load_seen_thumbnails and load_seen_products
StateFileOf(key) ==
    CASE key = "seen_urls" -> urlFile
      [] key = "seen_thumbnails" -> thumbFile
      [] OTHER -> prodFile

InitLoad ==
    /\ MatchIdle
    /\ ScoreIdle
    /\ urlFile \in StateFiles
    /\ thumbFile \in StateFiles
    /\ prodFile \in StateFiles
    /\ processed = [ts \in Stamps |-> NoFile]
    /\ clock = 0
    /\ run = BlankRun("init")
    /\ prevNew = {}
    /\ ops = 0
    /\ cache = {}
    /\ encode_log = <<>>
    /\ emb_ret = <<>>
    /\ emb_calls = 0
    /\ cache_file \in CacheFileStates
    /\ emb_main = NotStarted

\* _load_state_set(path, key) called on its own: the set it returns, or the
\* exception of open
load_state_set_call(key) ==
    /\ run' = IF open_raises(StateFileOf(key))
              THEN BlankRun("raised")
              ELSE [BlankRun(key) EXCEPT !.seen_urls = load_state_set(StateFileOf(key))]
    /\ UNCHANGED <<urlFile, thumbFile, prodFile, processed, clock, prevNew, ops>>

NextLoad ==
    \/ /\ \E key \in StateKeys : load_state_set_call(key)
       /\ UNCHANGED <<matchVars, scoreVars, embedVars>>
    \/ /\ EmbeddingManager_init
       /\ UNCHANGED <<dedupVars, matchVars, scoreVars>>

SpecLoad == InitLoad /\ [][NextLoad]_vars

\* C23: loading a state file or a cache file that is there but cannot be read or
\* parsed raises nothing, returns the empty set or the empty cache, and leaves
\* every file as it was
C23_UnreadableFileLoadsEmpty ==
    [][/\ run'.op # "raised"
       /\ \A key \in StateKeys :
             (run' # run /\ run'.op = key /\ StateFileOf(key).st \in {"partial", "unreadable"})
                => run'.seen_urls = {}
       /\ (emb_main' # emb_main /\ emb_main.pc = "start" /\ cache_file.st = "unreadable")
             => (emb_main'.pc = "try" /\ cache' = {})
       /\ <<urlFile, thumbFile, prodFile, cache_file>>' = <<urlFile, thumbFile, prodFile, cache_file>>]_vars

\* main of the enhanced engine has left its try block
Exited == emb_main.pc \in {"returned", "raised"}

\* C24: when main ends, by returning or with the error of a step, it has tried
\* to save the cache once, with every entry computed in the run in it, and it
\* ends with the error of the step whatever became of the save
C24_CacheSaveAttemptedOnExit ==
    Exited =>
        /\ emb_main.saves = <<cache>>
        /\ \A p \in Encoded : KeyAt(p) \in Keys(emb_main.saves[1])
        /\ emb_main.pc = "raised" <=> emb_main.error = "step"

\* a step raised after an entry was computed, and the save failed
C24_Witness ==
    /\ emb_main.pc = "raised"
    /\ emb_main.saves = <<cache>>
    /\ encode_log # <<>>
    /\ cache_file = UnreadableCacheFile

(***************************************************************************)
(* Part VI: the blocking of compute_matches_enhanced                       *)
(***************************************************************************)
\* product rows of two categories: the first two are one product at one
\* retailer, the third is that product in the other category, the last two
\* have categories that differ in case only
BlockPool ==
    << MatchPool[1],
       MatchPool[3],
       [MatchPool[2] EXCEPT !.category_name = <<"Hair">>],
       MatchPool[4],
       [MatchPool[5] EXCEPT !.category_name = <<"Hair">>],
       [MatchPool[8] EXCEPT !.category_name = <<"hair">>] >>

\* the rows of the pool at the places S, in the order of the pool
PickBlock(S) ==
    LET f[k \in 0..Len(BlockPool)] ==
            IF k = 0 THEN <<>>
            ELSE IF k \in S THEN Append(f[k - 1], BlockPool[k]) ELSE f[k - 1]
    IN f[Len(BlockPool)]

BlockDatasets ==
    {PickBlock(S) : S \in {T \in SUBSET DOMAIN BlockPool : Cardinality(T) <= MaxRows}}

InitBlock ==
    /\ DedupIdle
    /\ ScoreIdle
    /\ EmbedIdle
    /\ df \in BlockDatasets
    /\ lib \in Libraries
    /\ stage = "loaded"
    /\ engine = "none"
    /\ matches = <<>>
    /\ unmatched = <<>>
    /\ post_input = <<>>
    /\ post_matches = <<>>
    /\ final_matches = <<>>
    /\ final_unmatched = <<>>
    /\ summary = <<>>

NextBlock == enhanced_main /\ UNCHANGED <<dedupVars, scoreVars, embedVars>>

SpecBlock == InitBlock /\ [][NextBlock]_vars

\* the places of the prepared frame, and the pairs of places the double loop
\* visits, in the order it visits them
FramePlaces == DOMAIN PrimaryFrame
Visited == GroupPairs(PrimaryFrame, category_clean_of)

\* the pair p of the primary pass joins the rows at the places i and j
JoinsPlaces(p, i, j) == PairOfRows(p, PrimaryFrame[i], PrimaryFrame[j])

SameBlock(i, j) == PrimaryFrame[i].category_clean = PrimaryFrame[j].category_clean

SameProductAtRetailer(i, j) ==
    /\ PrimaryFrame[i].product_id = PrimaryFrame[j].product_id
    /\ PrimaryFrame[i].retailer_clean = PrimaryFrame[j].retailer_clean

\* C25: the primary pass visits every two rows of one normalized category once,
\* the earlier row first, and no two rows of different categories; a pair it
\* emits joins two visited rows that are not one product at one normalized
\* retailer, and no two of its pairs join the same two rows
C25_BlockedPairsVisitedOnce ==
    (engine = "enhanced" /\ PrimaryDone) =>
        /\ \A a \in DOMAIN Visited :
              /\ Visited[a][1] < Visited[a][2]
              /\ SameBlock(Visited[a][1], Visited[a][2])
              /\ \A b \in DOMAIN Visited :
                    a # b => {Visited[a][1], Visited[a][2]} # {Visited[b][1], Visited[b][2]}
        /\ \A i, j \in FramePlaces :
              (i < j /\ SameBlock(i, j)) => \E a \in DOMAIN Visited : Visited[a] = <<i, j>>
        /\ \A k \in DOMAIN matches :
              /\ \E a \in DOMAIN Visited : JoinsPlaces(matches[k], Visited[a][1], Visited[a][2])
              /\ \A i, j \in FramePlaces :
                    JoinsPlaces(matches[k], i, j) =>
                        /\ SameBlock(i, j)
                        /\ ~SameProductAtRetailer(i, j)
                        /\ \A l \in DOMAIN matches :
                              (JoinsPlaces(matches[l], i, j) \/ JoinsPlaces(matches[l], j, i))
                                  => l = k

\* rows of two categories were matched: a pair was emitted, one product at one
\* retailer was passed over within a category, and the same product in two
\* categories was not joined
C25_Witness ==
    /\ engine = "enhanced" /\ PrimaryDone
    /\ matches # <<>>
    /\ \E i, j \in FramePlaces : i < j /\ SameBlock(i, j) /\ SameProductAtRetailer(i, j)
    /\ \E i, j \in FramePlaces :
          /\ ~SameBlock(i, j)
          /\ PrimaryFrame[i].product_id = PrimaryFrame[j].product_id
          /\ PrimaryFrame[i].product_clean = PrimaryFrame[j].product_clean
    /\ \E i, j \in FramePlaces :
          /\ PrimaryFrame[i].category_name # PrimaryFrame[j].category_name
          /\ \E k \in DOMAIN matches : JoinsPlaces(matches[k], i, j)

\* C26: the semantic similarity of a scored pair is the cosine of the two
\* embeddings carried from [-1, 1] onto [0, 100], and so lies from 0 to 100
C26_SemanticSimilarityRescaled ==
    \A k \in Calls :
        call_log[k].fn = "enhanced_score" =>
            LET x == Prepared(First(call_log[k].order))
                y == Prepared(Second(call_log[k].order))
                cosine100 == IF split(x.product_clean) = <<>> \/ split(y.product_clean) = <<>>
                             THEN 0
                             ELSE cosine_similarity(x.product_clean, y.product_clean)
            IN /\ call_log[k].val.semantic_similarity >= 0
               /\ call_log[k].val.semantic_similarity <= 100 * Unit
               /\ 2 * call_log[k].val.semantic_similarity = (cosine100 + 100) * Unit

(***************************************************************************)
(* Part VII: urls written in several ways, and missing urls and thumbnails *)
(***************************************************************************)
UrlCols == {"url", "thumbnail"}

InitUrl == InitDedup

NextUrl ==
    /\ \E r \in UrlRows : deduplicate_file(UrlCols, <<r>>)
    /\ UNCHANGED <<matchVars, scoreVars, embedVars>>

SpecUrl == InitUrl /\ [][NextUrl]_vars

\* the address and the ordinary parameters of a url, in order: what is left of
\* it without letter case, surrounding white space, tracking parameters and
\* separators
NotTracking(t) == t \notin {"?", "&", "utm"}
Essence(u) == SelectSeq(Lower(Strip(u)), NotTracking)

\* two urls that differ at most in letter case, surrounding white space and
\* tracking parameters
SameAddress(u, v) == u # NaN /\ v # NaN /\ Essence(u) = Essence(v)

\* C27: a row whose url differs from the url of a row accepted by the run before
\* at most in letter case, surrounding white space and tracking parameters has
\* the canonical url of that row and is labelled duplicate_url
C27_UrlVariantsAreDuplicates ==
    Completed =>
        \A i \in Rows : \A v \in prevNew :
            SameAddress(run.batch[i].url, v) =>
                /\ canonicalize_url(AsStr(run.batch[i].url)) = canonicalize_url(AsStr(v))
                /\ run.reason[i] = "duplicate_url"

\* C29: a row without a url is never labelled duplicate_url and a row without a
\* thumbnail never duplicate_thumbnail, and a missing value is no entry of the
\* persisted sets
C29_MissingValueNeverDuplicate ==
    Completed =>
        /\ \A i \in Rows :
              /\ run.batch[i].url = NaN => run.reason[i] # "duplicate_url"
              /\ run.batch[i].thumbnail = NaN => run.reason[i] # "duplicate_thumbnail"
        /\ <<"nan">> \notin load_state_set(urlFile)
        /\ md5(<<"nan">>) \notin load_state_set(thumbFile)

\* C28: the latest summary counts the product ids of the pairs it was written
\* with as matched and the products of the unmatched rows it was written with as
\* unmatched, the two add up to its total, and matched lies from 0 to the total
C28_SummaryCountsAgree ==
    summary # <<>> =>
        LET s == summary[Len(summary)]
            pairs == IF Final THEN final_matches ELSE matches
            rest == IF Final THEN final_unmatched ELSE unmatched
        IN /\ s.matched_products = Cardinality(PairIds(pairs))
           /\ s.unmatched_products = Cardinality(FrameIds(rest))
           /\ s.matched_products + s.unmatched_products = s.total_products
           /\ 0 <= s.matched_products
           /\ s.matched_products <= s.total_products

\* the automated pipeline after a recovery pass that read this run's unmatched
\* rows and found no pair among them
NoRecoveryPair ==
    /\ engine = "file"
    /\ stage = "recovery"
    /\ post_input = unmatched
    /\ post_matches = <<>>
    /\ MatchesReadable
    /\ UnmatchedReadable

\* C30: when the recovery pass finds no pair the pipeline goes on to merge, and
\* what it then writes are the primary pairs and the primary unmatched rows
C30_CompletesWithoutRecoveryPair ==
    /\ NoRecoveryPair => ENABLED merge_results
    /\ (Final /\ engine = "file" /\ post_matches = <<>>) =>
          /\ PairIds(final_matches) = PairIds(matches)
          /\ FrameIds(final_unmatched) = FrameIds(unmatched)

====
